---- MODULE Spec2Model ----
(***************************************************************************)
(* Model of the simora caption pipeline.                                   *)
(*                                                                         *)
(*   - the render component RemotionCaptionVideo (active-segment lookup);  *)
(*   - the SRT codec of the CLI whisper module (parseSRTContent,           *)
(*     srtTimeToSeconds) and the SRT serialisation of a transcript;        *)
(*   - the three process-driving transcription backends of the CLI whisper *)
(*     module (processAudioWithWhisper, processAudioWithWhisperSimple,     *)
(*     processAudioWithHinglishWhisper), the in-process backend            *)
(*     transcribeWithJS, and the files they write, read and remove;        *)
(*   - two backend invocations at the same time on one file system;        *)
(*   - the VideoUploader: file selection, extractAudio, generateCaptions   *)
(*     and the upload route it posts to;                                   *)
(*   - the presenter VideoPlayerWithCaptions and renderCaption.            *)
(*                                                                         *)
(* Strings are sequences of one-character strings, so that trim, split,    *)
(* join, includes and the timecode pattern are computed character by       *)
(* character.  Times are held in integer milliseconds: a time of s seconds *)
(* is the integer 1000*s, which makes "milliseconds/1000" exact.  IEEE     *)
(* rounding of the JavaScript numbers is not modelled.                     *)
(***************************************************************************)
EXTENDS Integers, Sequences, FiniteSets, TLC

VARIABLES
    \* RemotionCaptionVideo
    captions,      \* the captions prop: a sequence of segments
    frame,         \* useCurrentFrame()
    seg,           \* the segment found for the frame: <<>> or <<segment>>
    currentText,   \* the text handed to renderCaption
    rpc,           \* "init" before the player is mounted, "mounted" before the
                   \* first frame is rendered, then "rendered"; "crashed" after a throw
    captionsIsArray,  \* Array.isArray(captions)
    captionStyle,     \* the captionStyle prop
    captionTheme,     \* the captionTheme prop of VideoPlayerWithCaptions
    theme,            \* the captionTheme prop RemotionCaptionVideo receives
    durationInFrames, \* the length VideoPlayerWithCaptions gives the player
    caption,          \* what renderCaption returned: << >> (null) or <<element>>
    threw,            \* rendering raised an error
    \* SRT codec
    transcript,    \* the transcript handed to the SRT serialisation
    srcBlocks,     \* the blocks the SRT text at hand was written from
    srtContent,    \* the SRT text: argument of parseSRTContent
    segments,      \* the value parseSRTContent returned
    cpc,           \* "input", then "encoded" / "received", then "roundtrip" / "parsed"
    \* transcription backends (one invocation)
    variant,       \* which function was called
    model,         \* its model argument
    files,         \* the file system: path -> content, for the paths that exist
    script,        \* what the external process or the model does: output, exit code,
                   \* file, inference result
    outq,          \* stdout chunks the process has written, not yet delivered
    errq,          \* stderr chunks the process has written, not yet delivered
    written,       \* the process has written its output file
    stdout,        \* let stdout
    stderr,        \* let stderr
    outcome,       \* the state of the returned promise
    bpc,           \* "idle", "running", "converted", "errored", "closed", "returned",
                   \* "done"
    audioFilePath, \* the audioFilePath argument
    wavPath,       \* let wavPath of transcribeWithJS: << >> (undefined) or <<path>>
    calledAs,      \* the name the function was called by
    \* caption generation (VideoUploader and the upload route)
    useHinglishModel,      \* the 'use specialized model' flag of the uploader
    isGeneratingCaptions,  \* the uploader's busy flag
    endpoint,              \* the endpoint the request at hand was sent to
    invoked,               \* the backend functions the route has called for it
    response,              \* the answer to the fetch: << >> or <<answer>>
    uiCaptions,            \* the uploader's captions state: << >> (null) or <<transcript>>
    uiSrt,                 \* the uploader's srtContent state: << >> (null) or <<text>>
    alertMsg,              \* the last alert shown
    requests,              \* caption-generation requests made so far
    kpc,                   \* "idle", "fetching", "transcribing", "answered"
    \* the VideoUploader around generateCaptions
    selectedFile,          \* << >> (null) or <<file>>
    extractedAudioUrl,     \* << >> (null) or <<the file the audio was taken from>>
    isLoading,             \* the busy flag of extractAudio
    isFFmpegLoaded,        \* FFmpeg has been loaded
    closure,               \* the state the running extractAudio was created with
    upc,                   \* where extractAudio stands: "idle" (not running), "loading",
                           \* "extracting", "extracted", "captioning"
    offered,               \* the file last handed to handleFileSelect: << >> or <<file>>
    selections,            \* the calls of handleFileSelect so far
    \* transcription backends called at the same time
    jobs,                  \* the invocations: id -> its arguments, script and state
    disk                   \* the file system they share

renderVars ==
    <<captions, frame, seg, currentText, rpc, captionsIsArray, captionStyle, captionTheme,
      theme, durationInFrames, caption, threw>>
codecVars == <<transcript, srcBlocks, srtContent, segments, cpc>>
backendVars ==
    <<variant, model, files, script, outq, errq, written, stdout, stderr, outcome, bpc,
      audioFilePath, wavPath, calledAs>>

coordVars ==
    <<useHinglishModel, isGeneratingCaptions, endpoint, invoked, response, uiCaptions, uiSrt,
      alertMsg, requests, kpc>>
uploadVars ==
    <<selectedFile, extractedAudioUrl, isLoading, isFFmpegLoaded, closure, upc, offered,
      selections>>
jobVars == <<jobs, disk>>
vars == <<renderVars, codecVars, backendVars, coordVars, uploadVars, jobVars>>

(***************************************************************************)
(* Characters and strings                                                  *)
(***************************************************************************)
NL == "\n"
CR == "\r"
TAB == "\t"

\* The white space String.prototype.trim removes (the part of it the inputs use).
WhiteSpace == {" ", NL, CR, TAB}

EmptyStr == << >>

Digits == <<"0", "1", "2", "3", "4", "5", "6", "7", "8", "9">>
DigitSet == {Digits[i] : i \in 1..10}

SetMin(S) == CHOOSE x \in S : \A y \in S : x <= y
SetMax(S) == CHOOSE x \in S : \A y \in S : x >= y

\* String.prototype.trim
Trim(s) ==
    LET keep == {i \in 1..Len(s) : s[i] \notin WhiteSpace}
    IN  IF keep = {} THEN EmptyStr ELSE SubSeq(s, SetMin(keep), SetMax(keep))

\* String.prototype.indexOf, 1-based; 0 when sep does not occur in s.
IndexOf(s, sep) ==
    LET at == {i \in 1..(Len(s) - Len(sep) + 1) : SubSeq(s, i, i + Len(sep) - 1) = sep}
    IN  IF at = {} THEN 0 ELSE SetMin(at)

\* String.prototype.includes
Includes(s, sep) == IndexOf(s, sep) /= 0

\* String.prototype.split with a non-empty separator.
RECURSIVE Split(_, _)
Split(s, sep) ==
    LET i == IndexOf(s, sep)
    IN  IF i = 0 THEN <<s>>
        ELSE <<SubSeq(s, 1, i - 1)>> \o Split(SubSeq(s, i + Len(sep), Len(s)), sep)

\* Array.prototype.join
RECURSIVE Join(_, _)
Join(parts, sep) ==
    IF parts = << >> THEN EmptyStr
    ELSE IF Len(parts) = 1 THEN parts[1]
    ELSE parts[1] \o sep \o Join(Tail(parts), sep)

\* Number(str) / parseInt(str) of a string of decimal digits.
DigitValue(c) == CHOOSE d \in 0..9 : Digits[d + 1] = c
RECURSIVE ToNumber(_)
ToNumber(s) ==
    IF s = << >> THEN 0
    ELSE 10 * ToNumber(SubSeq(s, 1, Len(s) - 1)) + DigitValue(s[Len(s)])

\* String(n) of a natural number.
RECURSIVE ToDigits(_)
ToDigits(n) == IF n < 10 THEN <<Digits[n + 1]>> ELSE ToDigits(n \div 10) \o <<Digits[(n % 10) + 1]>>

\* String(n).padStart(w, "0")
RECURSIVE PadStart(_, _)
PadStart(s, w) == IF Len(s) >= w THEN s ELSE PadStart(<<"0">> \o s, w)

HelloWorld == <<"H", "e", "l", "l", "o", " ", "w", "o", "r", "l", "d">>
Namaste == <<"N", "a", "m", "a", "s", "t", "e">>
PaddedHi == <<" ", "H", "i", " ">>
Hi == <<"H", "i">>

(***************************************************************************)
(* RemotionCaptionVideo: the active segment of a frame                     *)
(***************************************************************************)
\* Bounds of the render model.
MaxCaptions == 2
MaxFrame == 200

\* fps = 30 (default of the prop, and the value VideoPlayerWithCaptions passes)
fps == 30

\* Segment boundaries of the caption lists, in milliseconds.
CaptionTimes == {1000, 3500, 4000, 6000}
CaptionTexts == {HelloWorld, Namaste}

CaptionSegments ==
    {c \in [start : CaptionTimes, end : CaptionTimes, text : CaptionTexts] :
        c.start < c.end}

SeqsUpTo(S, n) == UNION {[1..k -> S] : k \in 0..n}

\* Every list of up to MaxCaptions segments, in any order, overlapping or not:
\* nothing on the way from a backend to the component sorts or merges them.
CaptionLists == SeqsUpTo(CaptionSegments, MaxCaptions)

\* t >= c.start && t <= c.end with t = frame / fps; both sides are scaled by
\* 1000 * fps so the comparison stays in the integers.
ActiveAtStartOnly(c, f) == f * 1000 >= c.start * fps
\* A comparison with a missing (undefined) boundary is false.
ActiveAt(c, f) ==
    /\ "start" \in DOMAIN c
    /\ "end" \in DOMAIN c
    /\ f * 1000 >= c.start * fps
    /\ f * 1000 <= c.end * fps

\* Array.prototype.find: the first element, in array order, the predicate holds for.
FindActive(list, f) ==
    LET hits == {i \in 1..Len(list) : ActiveAt(list[i], f)}
    IN  IF hits = {} THEN << >>
        ELSE <<list[CHOOSE i \in hits : \A j \in hits : i <= j]>>

\* if (seg && seg.text) currentText = seg.text
TextOf(found) ==
    IF found /= << >> /\ "text" \in DOMAIN found[1] /\ found[1].text /= EmptyStr
    THEN found[1].text ELSE EmptyStr

\* JSON values carry their type: "undefined", "null", "str", "arr", "obj".
JValue(t, v) == [t |-> t, v |-> v]
JUndefined == JValue("undefined", << >>)
JNull == JValue("null", << >>)
JStr(x) == JValue("str", x)
JArr(a) == JValue("arr", a)
JObj(f) == JValue("obj", f)
JNum(n) == JValue("num", n)

\* value.key of an object; undefined when the key is missing.
Get(value, key) ==
    IF value.t = "obj" /\ key \in DOMAIN value.v THEN value.v[key] ELSE JUndefined

\* !value is false
Truthy(value) ==
    /\ value.t \notin {"undefined", "null"}
    /\ value.t = "str" => value.v /= EmptyStr
    /\ value.t = "num" => value.v /= 0

\* a || b
Or(a, b) == IF Truthy(a) THEN a ELSE b

\* The promise: pending, resolved with a value or rejected with new Error(message).
Pending == [kind |-> "pending", value |-> JUndefined, message |-> EmptyStr]
Resolved(v) == [kind |-> "resolved", value |-> v, message |-> EmptyStr]
Rejected(m) == [kind |-> "rejected", value |-> JUndefined, message |-> m]

NoFiles == [q \in {} |-> EmptyStr]
\* What the in-process model call ends with: an exception or the value it returns.
Threw(m) == [threw |-> TRUE, message |-> m, value |-> JUndefined]
Returned(v) == [threw |-> FALSE, message |-> EmptyStr, value |-> v]
NoResult == Returned(JUndefined)

NoScript ==
    [spawnFails |-> FALSE, out |-> << >>, err |-> << >>, code |-> 0, file |-> << >>,
     result |-> NoResult, rmFails |-> FALSE, convert |-> "ok"]

NoPath == [dir |-> "", base |-> "", suffix |-> ""]
NoEntry == [via |-> "none", name |-> "", model |-> << >>]

BackendIdle ==
    /\ variant = "none"
    /\ model = EmptyStr
    /\ files = NoFiles
    /\ script = NoScript
    /\ outq = << >>
    /\ errq = << >>
    /\ written = FALSE
    /\ stdout = EmptyStr
    /\ stderr = EmptyStr
    /\ outcome = Pending
    /\ bpc = "off"
    /\ audioFilePath = NoPath
    /\ wavPath = << >>
    /\ calledAs = NoEntry

CoordIdle ==
    /\ useHinglishModel = TRUE
    /\ isGeneratingCaptions = FALSE
    /\ endpoint = EmptyStr
    /\ invoked = << >>
    /\ response = << >>
    /\ uiCaptions = << >>
    /\ uiSrt = << >>
    /\ alertMsg = EmptyStr
    /\ requests = 0
    /\ kpc = "off"

CodecIdle ==
    /\ transcript = << >>
    /\ srcBlocks = << >>
    /\ srtContent = EmptyStr
    /\ segments = << >>
    /\ cpc = "off"

\* No file: the closure of no run.
NoFile == [name |-> "", type |-> << >>]
NoClosure == [file |-> NoFile, flag |-> FALSE]

UploadIdle ==
    /\ selectedFile = << >>
    /\ extractedAudioUrl = << >>
    /\ isLoading = FALSE
    /\ isFFmpegLoaded = FALSE
    /\ closure = NoClosure
    /\ upc = "off"
    /\ offered = << >>
    /\ selections = 0

JobsIdle ==
    /\ jobs = << >>
    /\ disk = NoFiles

(***************************************************************************)
(* The presenter: VideoPlayerWithCaptions handing its props to the player, *)
(* and renderCaption of RemotionCaptionVideo                               *)
(***************************************************************************)
\* An element of the captions array that is null.
NullElement == [null |-> TRUE]
IsNull(c) == "null" \in DOMAIN c

\* captions.find throws on c.start when it comes to a null element before an
\* element the predicate holds for.
FindThrows(list, f) ==
    \E i \in 1..Len(list) :
        /\ IsNull(list[i])
        /\ \A j \in 1..(i - 1) : ~ActiveAt(list[j], f)

Font_SegoeUI ==
    <<"S", "e", "g", "o", "e", " ", "U", "I", ",", " ", "T", "a", "h", "o", "m", "a", ",", " ",
      "G", "e", "n", "e", "v", "a", ",", " ", "V", "e", "r", "d", "a", "n", "a", ",", " ", "s",
      "a", "n", "s", "-", "s", "e", "r", "i", "f">>
Font_Georgia == <<"G", "e", "o", "r", "g", "i", "a", ",", " ", "s", "e", "r", "i", "f">>
Color_White == <<"#", "f", "f", "f", "f", "f", "f">>
Color_Fff == <<"#", "f", "f", "f">>

\* captionTheme = {} : the default of the prop of RemotionCaptionVideo.
EmptyTheme == JObj(<< >>)

\* The theme VideoPlayerWithCaptions passes when it is given none.
DefaultTheme ==
    JObj([fontFamily |-> JStr(Font_SegoeUI),
          fontWeight |-> JNum(700),
          fontSize |-> JNum(28),
          color |-> JStr(Color_White)])

\* captionTheme: captionTheme || { ...defaults }
PassedTheme(th) == Or(th, DefaultTheme)

\* Math.max(1, Math.round(durationInSeconds * fps) || 1) with durationInSeconds
\* = Math.max(0, Number(last.end) || 0) of the last element, 0 without one.
DurationInFrames(isArray, list) ==
    LET last == list[Len(list)]
        ms == IF ~isArray \/ Len(list) = 0 \/ "end" \notin DOMAIN last THEN 0
              ELSE SetMax({0, last.end})
        frames == (ms * fps + 500) \div 1000
    IN  SetMax({1, frames})

\* last.end throws when the last element is null.
DurationThrows(isArray, list) == isArray /\ Len(list) > 0 /\ IsNull(list[Len(list)])

\* captionTheme.fontSize ? `${captionTheme.fontSize}px` : undefined
Px(size) == IF Truthy(size) THEN JValue("px", size.v) ELSE JUndefined

CaptionElement(position, className, transform, family, weight, size, color, text) ==
    [position |-> position, className |-> className, transform |-> transform,
     fontFamily |-> family, fontWeight |-> weight, fontSize |-> size, color |-> color,
     text |-> text]

\* renderCaption with an element even when there is no text.
renderCaptionAlways(text, style, th, f) ==
    <<CaptionElement("", "caption-overlay", JUndefined, Get(th, "fontFamily"),
               Get(th, "fontWeight"), Px(Get(th, "fontSize")), Get(th, "color"), text)>>

\* renderCaption: null without text, else the element of the style; the
\* karaoke transform scales by 0.85 + 0.15 * Math.sin(frame / 6).
renderCaption(text, style, th, f) ==
    IF text = EmptyStr THEN << >>
    ELSE IF style = "topbar"
    THEN <<CaptionElement("absolute", "", JUndefined, Get(th, "fontFamily"),
                    Or(Get(th, "fontWeight"), JNum(700)), Px(Get(th, "fontSize")),
                    Or(Get(th, "color"), JStr(Color_Fff)), text)>>
    ELSE IF style = "karaoke"
    THEN <<CaptionElement("", "caption-overlay", JValue("pulse", f), Get(th, "fontFamily"),
                    Get(th, "fontWeight"), Px(Get(th, "fontSize")), Get(th, "color"),
                    text)>>
    ELSE <<CaptionElement("", "caption-overlay", JUndefined, Get(th, "fontFamily"),
                    Get(th, "fontWeight"), Px(Get(th, "fontSize")), Get(th, "color"),
                    text)>>

RenderIdle ==
    /\ captions = << >>
    /\ frame = 0
    /\ seg = << >>
    /\ currentText = EmptyStr
    /\ rpc = "off"
    /\ captionsIsArray = TRUE
    /\ captionStyle = "bottom"
    /\ captionTheme = JUndefined
    /\ theme = EmptyTheme
    /\ durationInFrames = 1
    /\ caption = << >>
    /\ threw = FALSE

\* RemotionCaptionVideo mounted with a list of segments and the defaults of
\* its other props.
InitRender ==
    /\ captions \in CaptionLists
    /\ frame = 0
    /\ seg = << >>
    /\ currentText = EmptyStr
    /\ rpc = "mounted"
    /\ captionsIsArray = TRUE
    /\ captionStyle = "bottom"
    /\ captionTheme = JUndefined
    /\ theme = EmptyTheme
    /\ durationInFrames = DurationInFrames(TRUE, captions)
    /\ caption = << >>
    /\ threw = FALSE
    /\ CodecIdle
    /\ BackendIdle
    /\ CoordIdle
    /\ UploadIdle
    /\ JobsIdle

\* One evaluation of the component body for the frame f.  The player renders
\* frame 0 first and then the frame after the one it rendered last.
RenderFrame(f) ==
    /\ \/ rpc = "mounted" /\ f = 0
       \/ rpc = "rendered" /\ f = frame + 1
    /\ frame' = f
    /\ LET found == IF captionsIsArray /\ Len(captions) > 0
                    THEN FindActive(captions, f) ELSE << >>
           findThrows == captionsIsArray /\ FindThrows(captions, f)
           themeThrows == theme.t = "null" /\ TextOf(found) /= EmptyStr
       IN  IF findThrows \/ themeThrows
           THEN /\ threw' = TRUE
                /\ rpc' = "crashed"
                /\ seg' = << >>
                /\ currentText' = EmptyStr
                /\ caption' = << >>
           ELSE /\ threw' = FALSE
                /\ rpc' = "rendered"
                /\ seg' = found
                /\ currentText' = TextOf(found)
                /\ caption' = renderCaption(TextOf(found), captionStyle, theme, f)
    /\ UNCHANGED <<captions, captionsIsArray, captionStyle, captionTheme, theme,
                   durationInFrames, codecVars, backendVars, coordVars, uploadVars, jobVars>>

NextRender == \E f \in 0..MaxFrame : RenderFrame(f)

SpecRender == InitRender /\ [][NextRender]_vars

(***************************************************************************)
(* The render path from VideoPlayerWithCaptions on, with captions and      *)
(* themes of any shape                                                     *)
(***************************************************************************)
MaxPresentFrame == 3

\* Elements of a captions array: null, segments active at frames 0 and 1 or
\* at frames 1 to 3, with text, with empty text, lacking text or boundaries.
PresentElements ==
    {NullElement,
     [start |-> 0, end |-> 66, text |-> Hi],
     [start |-> 33, end |-> 100, text |-> Namaste],
     [start |-> 0, end |-> 66, text |-> EmptyStr],
     [start |-> 0, end |-> 66],
     [text |-> Hi]}

PresentLists == SeqsUpTo(PresentElements, MaxCaptions)

\* Values of the captionTheme prop: none, null, the uploader's theme, one
\* with the size field cleared (Number("") is 0), with empty fields, with
\* fields missing.
PresentThemes ==
    {JUndefined, JNull, DefaultTheme,
     JObj([fontFamily |-> JStr(Font_Georgia), fontWeight |-> JNum(400),
           fontSize |-> JNum(0), color |-> JStr(Color_White)]),
     JObj([fontFamily |-> JStr(EmptyStr), fontWeight |-> JNum(0), fontSize |-> JNum(0),
           color |-> JStr(EmptyStr)]),
     JObj([color |-> JStr(Color_White)]),
     EmptyTheme}

CaptionStyles == {"bottom", "topbar", "karaoke"}

InitPresent ==
    /\ captionsIsArray \in BOOLEAN
    /\ captions \in IF captionsIsArray THEN PresentLists ELSE {<< >>}
    /\ captionStyle \in CaptionStyles
    /\ captionTheme \in PresentThemes
    /\ theme = EmptyTheme
    /\ durationInFrames = 1
    /\ frame = 0
    /\ seg = << >>
    /\ currentText = EmptyStr
    /\ caption = << >>
    /\ threw = FALSE
    /\ rpc = "init"
    /\ CodecIdle
    /\ BackendIdle
    /\ CoordIdle
    /\ UploadIdle
    /\ JobsIdle

\* VideoPlayerWithCaptions renders: the length of the composition and the
\* props it hands to RemotionCaptionVideo through the player.
MountPlayer ==
    /\ rpc = "init"
    /\ IF DurationThrows(captionsIsArray, captions)
       THEN /\ threw' = TRUE
            /\ rpc' = "crashed"
            /\ UNCHANGED <<theme, durationInFrames>>
       ELSE /\ threw' = FALSE
            /\ rpc' = "mounted"
            /\ theme' = PassedTheme(captionTheme)
            /\ durationInFrames' = DurationInFrames(captionsIsArray, captions)
    /\ UNCHANGED <<captions, captionsIsArray, captionStyle, captionTheme, frame, seg,
                   currentText, caption, codecVars, backendVars, coordVars, uploadVars, jobVars>>

NextPresent ==
    \/ MountPlayer
    \/ \E f \in 0..MaxPresentFrame : RenderFrame(f)

SpecPresent == InitPresent /\ [][NextPresent]_vars

(***************************************************************************)
(* Claims about the presenter                                              *)
(***************************************************************************)
\* An element with boundaries and a text that is not empty.
IsSegment(c) ==
    /\ DOMAIN c = {"start", "end", "text"}
    /\ c.text /= EmptyStr

HasAllFields(c) == DOMAIN c = {"start", "end", "text"}

\* C18: the render path has no error states: whatever the captions value
\* (not an array, an empty array, elements that lack start / end / text or
\* are null) and the theme, no render raises an error, and input without a
\* single well-formed segment shows no caption.
C18_NoRenderError ==
    /\ ~threw
    /\ (\A i \in 1..Len(captions) : ~IsSegment(captions[i])) => caption = << >>

Selected == IF captionsIsArray THEN FindActive(captions, frame) ELSE << >>

Typography == {"fontFamily", "fontWeight", "fontSize"}

\* C20: for every style a theme field (font family, weight, size) that is
\* empty or missing is replaced by a default in the element produced: the
\* element never carries an undefined or empty typography value.
C20_TypographyNeverUndefined ==
    (rpc = "rendered" /\ caption /= << >>) =>
        \A k \in Typography : Truthy(caption[1][k])

(***************************************************************************)
(* Claims about the active segment                                         *)
(***************************************************************************)
Before(f, ms) == f * 1000 < ms * fps
After(f, ms) == f * 1000 > ms * fps
Covers(c, f) == ~Before(f, c.start) /\ ~After(f, c.end)

\* The first segment in ascending start order that covers the frame's time;
\* among equal starts the one listed first (a stable order).
EarliestStartMatch(list, f) ==
    LET hits == {i \in 1..Len(list) : Covers(list[i], f)}
        first == CHOOSE i \in hits : \A j \in hits :
                     \/ list[i].start < list[j].start
                     \/ list[i].start = list[j].start /\ i <= j
    IN  IF hits = {} THEN << >> ELSE <<list[first]>>

Scenario2Captions ==
    <<[start |-> 1000, end |-> 3500, text |-> HelloWorld],
      [start |-> 4000, end |-> 6000, text |-> Namaste]>>

\* C1: for every caption list and every frame time the segment the component
\* picks is the first one in ascending start order that covers the time (the
\* earliest-starting one when several overlap), none when no segment covers
\* it; on the two-segment transcript of scenario 2 that is "Hello world" at
\* 2.0 s, none at 3.6 s and "Namaste" at 4.0 s.
C1_EarliestStartWins ==
    rpc = "rendered" =>
        /\ seg = EarliestStartMatch(captions, frame)
        /\ captions = Scenario2Captions =>
              /\ frame = 60 => seg = <<Scenario2Captions[1]>>
              /\ frame = 108 => seg = << >>
              /\ frame = 120 => seg = <<Scenario2Captions[2]>>

\* A transcript of the data model: segments ordered by start ascending
\* (overlap between segments is allowed).
OrderedByStart(list) ==
    \A i \in 1..Len(list), j \in 1..Len(list) : i < j => list[i].start <= list[j].start

\* C2 as stated: for every transcript, overlapping segments included, no
\* segment is picked at a time before the start of the first segment or after
\* the end of the last segment.
C2_NoneOutsideFirstAndLast ==
    (/\ rpc = "rendered"
     /\ captions /= << >>
     /\ OrderedByStart(captions)
     /\ \/ Before(frame, captions[1].start)
        \/ After(frame, captions[Len(captions)].end))
        => seg = << >>

\* C2, amended: for every caption list no segment is picked at a time before
\* the start of every segment or after the end of every segment (with
\* overlapping segments the latest end need not be the last segment's).
C2_NoneOutsideSpan ==
    (/\ rpc = "rendered"
     /\ \/ \A i \in 1..Len(captions) : Before(frame, captions[i].start)
        \/ \A i \in 1..Len(captions) : After(frame, captions[i].end))
        => seg = << >>

\* Two overlapping segments, rendered at a time after both have ended.
C2_Witness ==
    /\ rpc = "rendered"
    /\ Len(captions) = 2
    /\ captions[2].start < captions[1].end
    /\ captions[1].start < captions[2].end
    /\ \A i \in 1..2 : After(frame, captions[i].end)
    /\ seg = << >>

(***************************************************************************)
(* SRT codec: parseSRTContent, srtTimeToSeconds and the SRT serialisation  *)
(***************************************************************************)
\* Bounds of the codec model.
MaxBlocks == 3
MaxSegments == 2

TwoLines == <<"H", "i", NL, "N", "a", "m", "a", "s", "t", "e">>
HiNamaste == <<"H", "i", " ", "N", "a", "m", "a", "s", "t", "e">>
Arrow == <<" ", "-", "-", ">", " ">>
BlankLine == <<NL, NL>>

\* /(\d{2}:\d{2}:\d{2},\d{3}) --> (\d{2}:\d{2}:\d{2},\d{3})/ : "d" stands for \d,
\* every other character for itself.
TimePattern == <<"d", "d", ":", "d", "d", ":", "d", "d", ",", "d", "d", "d">>
LinePattern == TimePattern \o Arrow \o TimePattern

MatchesAt(line, i) ==
    /\ i + Len(LinePattern) - 1 <= Len(line)
    /\ \A k \in 1..Len(LinePattern) :
          IF LinePattern[k] = "d" THEN line[i + k - 1] \in DigitSet
          ELSE line[i + k - 1] = LinePattern[k]

\* String.prototype.match with the (unanchored) pattern: << >> for null, else
\* the two captured groups of the leftmost match.
MatchTimecodes(line) ==
    LET at == {i \in 1..Len(line) : MatchesAt(line, i)}
        i0 == SetMin(at)
    IN  IF at = {} THEN << >>
        ELSE <<SubSeq(line, i0, i0 + Len(TimePattern) - 1),
               SubSeq(line, i0 + Len(TimePattern) + Len(Arrow), i0 + Len(LinePattern) - 1)>>

\* srtTimeToSeconds with the milliseconds dropped.
srtTimeToSecondsNoMillis(timeStr) ==
    LET hms == Split(Split(timeStr, <<",">>)[1], <<":">>)
    IN  (ToNumber(hms[1]) * 3600 + ToNumber(hms[2]) * 60 + ToNumber(hms[3])) * 1000

\* hours * 3600 + minutes * 60 + seconds + parseInt(ms) / 1000, in milliseconds.
srtTimeToSeconds(timeStr) ==
    LET parts == Split(timeStr, <<",">>)
        time == parts[1]
        ms == parts[2]
        hms == Split(time, <<":">>)
        hours == ToNumber(hms[1])
        minutes == ToNumber(hms[2])
        seconds == ToNumber(hms[3])
    IN  (hours * 3600 + minutes * 60 + seconds) * 1000 + ToNumber(ms)

\* The body of the loop with only the first text line taken as the text.
ParseEntryFirstTextLine(entry) ==
    LET lines == Split(entry, <<NL>>)
        timeMatch == MatchTimecodes(lines[2])
    IN  IF Len(lines) >= 3 /\ timeMatch /= << >>
        THEN <<[start |-> srtTimeToSeconds(timeMatch[1]),
                end |-> srtTimeToSeconds(timeMatch[2]),
                text |-> Trim(lines[3])]>>
        ELSE << >>

\* The body of the loop over the entries: the segments one entry adds.
ParseEntry(entry) ==
    LET lines == Split(entry, <<NL>>)
        timeMatch == MatchTimecodes(lines[2])
    IN  IF Len(lines) >= 3 /\ timeMatch /= << >>
        THEN <<[start |-> srtTimeToSeconds(timeMatch[1]),
                end |-> srtTimeToSeconds(timeMatch[2]),
                text |-> Trim(Join(SubSeq(lines, 3, Len(lines)), <<" ">>))]>>
        ELSE << >>

RECURSIVE ParseEntries(_)
ParseEntries(entries) ==
    IF entries = << >> THEN << >>
    ELSE ParseEntry(entries[1]) \o ParseEntries(Tail(entries))

\* The loop leaving at the first entry that yields no segment.
RECURSIVE ParseEntriesUntilBad(_)
ParseEntriesUntilBad(entries) ==
    IF entries = << >> \/ ParseEntry(entries[1]) = << >> THEN << >>
    ELSE ParseEntry(entries[1]) \o ParseEntriesUntilBad(Tail(entries))

parseSRTContentUntilBad(content) == ParseEntriesUntilBad(Split(Trim(content), BlankLine))

parseSRTContent(content) == ParseEntries(Split(Trim(content), BlankLine))

\* Zero-padded HH:MM:SS,mmm of a time in milliseconds.
formatSRTTime(t) ==
    PadStart(ToDigits(t \div 3600000), 2) \o <<":">>
        \o PadStart(ToDigits((t \div 60000) % 60), 2) \o <<":">>
        \o PadStart(ToDigits((t \div 1000) % 60), 2) \o <<",">>
        \o PadStart(ToDigits(t % 1000), 3)

\* One entry per segment: 1-based index line, timecode line, text line, blank line.
RECURSIVE EncodeFrom(_, _)
EncodeFrom(t, i) ==
    IF i > Len(t) THEN EmptyStr
    ELSE ToDigits(i) \o <<NL>>
            \o formatSRTTime(t[i].start) \o Arrow \o formatSRTTime(t[i].end) \o <<NL>>
            \o t[i].text \o BlankLine
            \o EncodeFrom(t, i + 1)

encodeSRT(t) == EncodeFrom(t, 1)

(***************************************************************************)
(* Inputs of the codec                                                     *)
(***************************************************************************)
\* Timecode lines as they stand in a file, with the fields they spell out
\* (hours, minutes, seconds, milliseconds).
TC_B1 ==
    <<"0", "0", ":", "0", "0", ":", "0", "1", ",", "0", "0", "0", " ", "-", "-", ">", " ", "0",
      "0", ":", "0", "0", ":", "0", "3", ",", "5", "0", "0">>
TC_B2 ==
    <<"0", "0", ":", "0", "0", ":", "0", "4", ",", "0", "0", "0", " ", "-", "-", ">", " ", "0",
      "0", ":", "0", "0", ":", "0", "6", ",", "0", "0", "0">>
TC_B3 ==
    <<"0", "1", ":", "0", "2", ":", "0", "3", ",", "0", "0", "4", " ", "-", "-", ">", " ", "0",
      "1", ":", "0", "2", ":", "0", "4", ",", "0", "5", "0">>
\* Not of the form HH:MM:SS,mmm --> HH:MM:SS,mmm: full stops for the commas,
\* and one-digit hours.
TC_Dots ==
    <<"0", "0", ":", "0", "0", ":", "0", "7", ".", "0", "0", "0", " ", "-", "-", ">", " ", "0",
      "0", ":", "0", "0", ":", "0", "8", ".", "0", "0", "0">>
TC_Short ==
    <<"0", ":", "0", "0", ":", "0", "7", ",", "0", "0", "0", " ", "-", "-", ">", " ", "0", ":",
      "0", "0", ":", "0", "8", ",", "0", "0", "0">>

Fields(h, m, sec, ms) == [h |-> h, m |-> m, s |-> sec, ms |-> ms]
NoFields == Fields(0, 0, 0, 0)

Block(tc, well, from, to, lines) ==
    [tc |-> tc, well |-> well, from |-> from, to |-> to, lines |-> lines]

WellFormedBlocks ==
    {Block(TC_B1, TRUE, Fields(0, 0, 1, 0), Fields(0, 0, 3, 500), <<HelloWorld>>),
     Block(TC_B2, TRUE, Fields(0, 0, 4, 0), Fields(0, 0, 6, 0), <<Namaste>>),
     Block(TC_B3, TRUE, Fields(1, 2, 3, 4), Fields(1, 2, 4, 50), <<Hi, Namaste>>),
     Block(TC_B1, TRUE, Fields(0, 0, 1, 0), Fields(0, 0, 3, 500), <<PaddedHi, Namaste>>)}

MalformedBlocks ==
    {Block(TC_Dots, FALSE, NoFields, NoFields, <<HelloWorld>>),
     Block(TC_Short, FALSE, NoFields, NoFields, <<Hi, Namaste>>)}

Blocks == WellFormedBlocks \cup MalformedBlocks
BlockLists == SeqsUpTo(Blocks, MaxBlocks)

\* What follows the last block's text line: nothing, or the blank line the
\* whisper CLI ends every block with.
Trailers == {EmptyStr, BlankLine}

\* The text of a file holding the blocks bs: index line, timecode line, text
\* lines, with a blank line between two blocks.
RECURSIVE BlockTexts(_, _)
BlockTexts(bs, i) ==
    IF i > Len(bs) THEN << >>
    ELSE <<ToDigits(i) \o <<NL>> \o bs[i].tc \o <<NL>> \o Join(bs[i].lines, <<NL>>)>>
            \o BlockTexts(bs, i + 1)

SrtText(bs, trailer) == Join(BlockTexts(bs, 1), BlankLine) \o trailer

\* Transcripts handed to the serialisation: boundaries that are whole
\* milliseconds, up to 100 hours; texts with and without outer white space and
\* line breaks.
BoundaryPairs == {<<1000, 3500>>, <<3723004, 3724050>>, <<359999999, 360000000>>}
TranscriptTexts == {HelloWorld, PaddedHi, TwoLines}
TranscriptSegments ==
    {[start |-> b[1], end |-> b[2], text |-> x] : b \in BoundaryPairs, x \in TranscriptTexts}
Transcripts == SeqsUpTo(TranscriptSegments, MaxSegments)

(***************************************************************************)
(* The codec as a state machine                                            *)
(***************************************************************************)
InitCodec ==
    /\ transcript = << >>
    /\ srcBlocks = << >>
    /\ srtContent = EmptyStr
    /\ segments = << >>
    /\ cpc = "input"
    /\ RenderIdle
    /\ BackendIdle
    /\ CoordIdle
    /\ UploadIdle
    /\ JobsIdle

\* The whisper CLI has written an .srt file holding the blocks bs.
ReceiveSRT(bs, trailer) ==
    /\ cpc = "input"
    /\ srcBlocks' = bs
    /\ srtContent' = SrtText(bs, trailer)
    /\ cpc' = "received"
    /\ UNCHANGED <<transcript, segments, renderVars, backendVars, coordVars, uploadVars, jobVars>>

\* A transcript is serialised to SRT text.
EncodeSRT(t) ==
    /\ cpc = "input"
    /\ transcript' = t
    /\ srtContent' = encodeSRT(t)
    /\ cpc' = "encoded"
    /\ UNCHANGED <<srcBlocks, segments, renderVars, backendVars, coordVars, uploadVars, jobVars>>

\* parseSRTContent(srtContent)
ParseSRT ==
    /\ cpc \in {"received", "encoded"}
    /\ segments' = parseSRTContent(srtContent)
    /\ cpc' = IF cpc = "received" THEN "parsed" ELSE "roundtrip"
    /\ UNCHANGED <<transcript, srcBlocks, srtContent, renderVars, backendVars, coordVars, uploadVars, jobVars>>

NextCodec ==
    \/ \E bs \in BlockLists, trailer \in Trailers : ReceiveSRT(bs, trailer)
    \/ \E t \in Transcripts : EncodeSRT(t)
    \/ ParseSRT

SpecCodec == InitCodec /\ [][NextCodec]_vars

(***************************************************************************)
(* Claims about the codec                                                  *)
(***************************************************************************)
Scenario1Text ==
    <<"1", NL, "0", "0", ":", "0", "0", ":", "0", "1", ",", "0", "0", "0", " ", "-", "-", ">",
      " ", "0", "0", ":", "0", "0", ":", "0", "3", ",", "5", "0", "0", NL, "H", "e", "l", "l",
      "o", " ", "w", "o", "r", "l", "d", NL, NL, "2", NL, "0", "0", ":", "0", "0", ":", "0", "4",
      ",", "0", "0", "0", " ", "-", "-", ">", " ", "0", "0", ":", "0", "0", ":", "0", "6", ",",
      "0", "0", "0", NL, "N", "a", "m", "a", "s", "t", "e", NL, NL>>

\* hours*3600 + minutes*60 + seconds + milliseconds/1000, in milliseconds.
FieldsValue(f) == (f.h * 3600 + f.m * 60 + f.s) * 1000 + f.ms

JoinedText(b) == Join(b.lines, <<" ">>)

SegmentOfBlock(b, text) ==
    [start |-> FieldsValue(b.from), end |-> FieldsValue(b.to), text |-> text]

AllWellFormed(bs) == \A i \in 1..Len(bs) : bs[i].well
IsWellFormed(b) == b.well

\* The first hour count the two-digit HH field cannot hold, in milliseconds.
HoursLimit == 100 * 3600 * 1000

\* The text of a segment of the data model: not empty, on one line, and
\* without white space at either end.
IsSegmentText(x) == x /= EmptyStr /\ Trim(x) = x /\ ~Includes(x, <<NL>>)

IsTranscript(t) ==
    \A i \in 1..Len(t) : t[i].start <= t[i].end /\ IsSegmentText(t[i].text)

\* C3 as stated: parsing the SRT text a transcript with whole-millisecond
\* boundaries was serialised to gives the transcript back, segment by segment.
C3_RoundTrip ==
    (cpc = "roundtrip" /\ IsTranscript(transcript)) => segments = transcript

\* C3, amended: parsing the SRT text a transcript was serialised to gives the
\* transcript back when its boundaries are whole milliseconds below 100 hours
\* and its texts are non-empty single lines without outer white space.
C3_RoundTripBelow100Hours ==
    (/\ cpc = "roundtrip"
     /\ IsTranscript(transcript)
     /\ \A i \in 1..Len(transcript) : transcript[i].end < HoursLimit)
        => segments = transcript

\* A transcript of two segments, one of them past the first hour, came back.
C3_Witness ==
    /\ cpc = "roundtrip"
    /\ Len(transcript) = 2
    /\ IsTranscript(transcript)
    /\ transcript[1].end < HoursLimit
    /\ transcript[2].start > 3600000
    /\ transcript[2].end < HoursLimit
    /\ segments = transcript

\* C4 as stated: valid SRT text decodes to one segment per block, in block
\* order, with start and end the value of the two timecodes and the text the
\* block's text lines joined by a single space; the text of scenario 1 decodes
\* to [{1.0, 3.5, "Hello world"}, {4.0, 6.0, "Namaste"}].
C4_OneSegmentPerBlock ==
    (cpc = "parsed" /\ AllWellFormed(srcBlocks)) =>
        /\ segments =
              [i \in 1..Len(srcBlocks) |->
                  SegmentOfBlock(srcBlocks[i], JoinedText(srcBlocks[i]))]
        /\ srtContent = Scenario1Text => segments = Scenario2Captions

\* C4, amended: as C4, with the text the block's text lines joined by a single
\* space and then stripped of leading and trailing white space.
C4_OneSegmentPerBlockTrimmed ==
    (cpc = "parsed" /\ AllWellFormed(srcBlocks)) =>
        /\ segments =
              [i \in 1..Len(srcBlocks) |->
                  SegmentOfBlock(srcBlocks[i], Trim(JoinedText(srcBlocks[i])))]
        /\ srtContent = Scenario1Text => segments = Scenario2Captions

\* The text of scenario 1 has been decoded.
C4_Witness ==
    /\ cpc = "parsed"
    /\ srtContent = Scenario1Text
    /\ AllWellFormed(srcBlocks)
    /\ segments = Scenario2Captions

\* C5: an entry whose timecode line is not of the form HH:MM:SS,mmm -->
\* HH:MM:SS,mmm yields no segment and no error, and every well-formed entry
\* before and after it still yields its segment.
C5_MalformedEntrySkipped ==
    (cpc = "parsed" /\ ~AllWellFormed(srcBlocks)) =>
        LET well == SelectSeq(srcBlocks, IsWellFormed)
        IN  segments =
                [i \in 1..Len(well) |-> SegmentOfBlock(well[i], Trim(JoinedText(well[i])))]

\* A malformed entry between two well-formed ones.
C5_Witness ==
    /\ cpc = "parsed"
    /\ Len(srcBlocks) = 3
    /\ srcBlocks[1].well
    /\ ~srcBlocks[2].well
    /\ srcBlocks[3].well
    /\ Len(segments) = 2

(***************************************************************************)
(* Transcription backends: texts                                           *)
(***************************************************************************)
Msg_AudioNotFound ==
    <<"A", "u", "d", "i", "o", " ", "f", "i", "l", "e", " ", "n", "o", "t", " ", "f", "o", "u",
      "n", "d">>
Msg_WhisperFailed ==
    <<"W", "h", "i", "s", "p", "e", "r", " ", "t", "r", "a", "n", "s", "c", "r", "i", "p", "t",
      "i", "o", "n", " ", "f", "a", "i", "l", "e", "d", ":", " ">>
Msg_InvalidOutput ==
    <<"I", "n", "v", "a", "l", "i", "d", " ", "W", "h", "i", "s", "p", "e", "r", " ", "o", "u",
      "t", "p", "u", "t", " ", "f", "o", "r", "m", "a", "t">>
Msg_ParseFailed ==
    <<"F", "a", "i", "l", "e", "d", " ", "t", "o", " ", "p", "a", "r", "s", "e", " ", "W", "h",
      "i", "s", "p", "e", "r", " ", "t", "r", "a", "n", "s", "c", "r", "i", "p", "t", "i", "o",
      "n", " ", "r", "e", "s", "u", "l", "t">>
Msg_StartFailed ==
    <<"F", "a", "i", "l", "e", "d", " ", "t", "o", " ", "s", "t", "a", "r", "t", " ", "W", "h",
      "i", "s", "p", "e", "r", " ", "t", "r", "a", "n", "s", "c", "r", "i", "p", "t", "i", "o",
      "n", ".", " ", "M", "a", "k", "e", " ", "s", "u", "r", "e", " ", "W", "h", "i", "s", "p",
      "e", "r", " ", "i", "s", " ", "i", "n", "s", "t", "a", "l", "l", "e", "d", ":", " ", "p",
      "i", "p", " ", "i", "n", "s", "t", "a", "l", "l", " ", "o", "p", "e", "n", "a", "i", "-",
      "w", "h", "i", "s", "p", "e", "r">>
Msg_SimpleSSLHead ==
    <<"W", "h", "i", "s", "p", "e", "r", " ", "m", "o", "d", "e", "l", " ", "d", "o", "w", "n",
      "l", "o", "a", "d", " ", "f", "a", "i", "l", "e", "d", " ", "d", "u", "e", " ", "t", "o",
      " ", "S", "S", "L", "/", "n", "e", "t", "w", "o", "r", "k", " ", "i", "s", "s", "u", "e",
      "s", ".", " ", "P", "l", "e", "a", "s", "e", " ", "p", "r", "e", "-", "d", "o", "w", "n",
      "l", "o", "a", "d", " ", "t", "h", "e", " ", "m", "o", "d", "e", "l", ":", " ", "p", "y",
      "t", "h", "o", "n", "3", " ", "-", "c", " ", "\"", "i", "m", "p", "o", "r", "t", " ", "s",
      "s", "l", ";", " ", "s", "s", "l", ".", "_", "c", "r", "e", "a", "t", "e", "_", "d", "e",
      "f", "a", "u", "l", "t", "_", "h", "t", "t", "p", "s", "_", "c", "o", "n", "t", "e", "x",
      "t", " ", "=", " ", "s", "s", "l", ".", "_", "c", "r", "e", "a", "t", "e", "_", "u", "n",
      "v", "e", "r", "i", "f", "i", "e", "d", "_", "c", "o", "n", "t", "e", "x", "t", ";", " ",
      "i", "m", "p", "o", "r", "t", " ", "w", "h", "i", "s", "p", "e", "r", ";", " ", "w", "h",
      "i", "s", "p", "e", "r", ".", "l", "o", "a", "d", "_", "m", "o", "d", "e", "l", "(", "'">>
Msg_SimpleSSLTail == <<"'", ")", "\"">>
Msg_NoOutputFile ==
    <<"W", "h", "i", "s", "p", "e", "r", " ", "d", "i", "d", " ", "n", "o", "t", " ", "g", "e",
      "n", "e", "r", "a", "t", "e", " ", "e", "x", "p", "e", "c", "t", "e", "d", " ", "o", "u",
      "t", "p", "u", "t", " ", "f", "i", "l", "e">>
Msg_HinglishSSL ==
    <<"H", "i", "n", "g", "l", "i", "s", "h", " ", "m", "o", "d", "e", "l", " ", "d", "o", "w",
      "n", "l", "o", "a", "d", " ", "f", "a", "i", "l", "e", "d", " ", "d", "u", "e", " ", "t",
      "o", " ", "S", "S", "L", "/", "n", "e", "t", "w", "o", "r", "k", " ", "i", "s", "s", "u",
      "e", "s", ".", " ", "P", "l", "e", "a", "s", "e", " ", "c", "h", "e", "c", "k", " ", "y",
      "o", "u", "r", " ", "i", "n", "t", "e", "r", "n", "e", "t", " ", "c", "o", "n", "n", "e",
      "c", "t", "i", "o", "n", ".">>
Msg_HinglishFailed ==
    <<"H", "i", "n", "g", "l", "i", "s", "h", " ", "W", "h", "i", "s", "p", "e", "r", " ", "t",
      "r", "a", "n", "s", "c", "r", "i", "p", "t", "i", "o", "n", " ", "f", "a", "i", "l", "e",
      "d", ":", " ">>
Msg_HinglishNoFile ==
    <<"H", "i", "n", "g", "l", "i", "s", "h", " ", "t", "r", "a", "n", "s", "c", "r", "i", "p",
      "t", "i", "o", "n", " ", "o", "u", "t", "p", "u", "t", " ", "f", "i", "l", "e", " ", "n",
      "o", "t", " ", "f", "o", "u", "n", "d">>
Msg_HinglishParseFailed ==
    <<"F", "a", "i", "l", "e", "d", " ", "t", "o", " ", "p", "a", "r", "s", "e", " ", "H", "i",
      "n", "g", "l", "i", "s", "h", " ", "t", "r", "a", "n", "s", "c", "r", "i", "p", "t", "i",
      "o", "n", " ", "r", "e", "s", "u", "l", "t", "s", ":", " ">>
Msg_HinglishStartFailed ==
    <<"F", "a", "i", "l", "e", "d", " ", "t", "o", " ", "s", "t", "a", "r", "t", " ", "H", "i",
      "n", "g", "l", "i", "s", "h", " ", "t", "r", "a", "n", "s", "c", "r", "i", "p", "t", "i",
      "o", "n", ":", " ">>
Str_CertVerifyFailed ==
    <<"c", "e", "r", "t", "i", "f", "i", "c", "a", "t", "e", " ", "v", "e", "r", "i", "f", "y",
      " ", "f", "a", "i", "l", "e", "d">>
Str_SSLColon == <<"S", "S", "L", ":">>
Str_SSL == <<"S", "S", "L">>
Str_Certificate == <<"c", "e", "r", "t", "i", "f", "i", "c", "a", "t", "e">>
Err_ModelNotFound == <<"m", "o", "d", "e", "l", " ", "n", "o", "t", " ", "f", "o", "u", "n", "d">>
Err_CertHead ==
    <<"u", "r", "l", "o", "p", "e", "n", " ", "e", "r", "r", "o", "r", ":", " ", "c", "e", "r",
      "t", "i", "f", "i", "c", "a", "t", "e", " ", "v", "e", "r", "i", "f", "y">>
Err_CertTail == <<" ", "f", "a", "i", "l", "e", "d">>
Err_SSLColon ==
    <<"[", "S", "S", "L", ":", " ", "W", "R", "O", "N", "G", "_", "V", "E", "R", "S", "I", "O",
      "N", "_", "N", "U", "M", "B", "E", "R", "]">>
Err_BadCertificate == <<"b", "a", "d", " ", "c", "e", "r", "t", "i", "f", "i", "c", "a", "t", "e">>
Err_Progress == <<"1", "0", "0", "%", " ", "f", "r", "a", "m", "e", "s">>
Err_ENOENT ==
    <<"s", "p", "a", "w", "n", " ", "p", "y", "t", "h", "o", "n", "3", " ", "E", "N", "O", "E",
      "N", "T">>
Err_UnexpectedToken ==
    <<"U", "n", "e", "x", "p", "e", "c", "t", "e", "d", " ", "e", "n", "d", " ", "o", "f", " ",
      "J", "S", "O", "N", " ", "i", "n", "p", "u", "t">>
Err_NullSegments ==
    <<"C", "a", "n", "n", "o", "t", " ", "r", "e", "a", "d", " ", "p", "r", "o", "p", "e", "r",
      "t", "i", "e", "s", " ", "o", "f", " ", "n", "u", "l", "l", " ", "(", "r", "e", "a", "d",
      "i", "n", "g", " ", "'", "s", "e", "g", "m", "e", "n", "t", "s", "'", ")">>
ModelLarge == <<"l", "a", "r", "g", "e">>
ModelBase == <<"b", "a", "s", "e">>
Msg_JSFailed ==
    <<"J", "S", " ", "W", "h", "i", "s", "p", "e", "r", " ", "t", "r", "a", "n", "s", "c", "r",
      "i", "p", "t", "i", "o", "n", " ", "f", "a", "i", "l", "e", "d", ":", " ">>
Err_NoTrim ==
    <<"C", "a", "n", "n", "o", "t", " ", "r", "e", "a", "d", " ", "p", "r", "o", "p", "e", "r",
      "t", "i", "e", "s", " ", "o", "f", " ", "u", "n", "d", "e", "f", "i", "n", "e", "d", " ",
      "(", "r", "e", "a", "d", "i", "n", "g", " ", "'", "t", "r", "i", "m", "'", ")">>
Err_MapNotFunction ==
    <<"(", "r", "e", "s", "u", "l", "t", ".", "c", "h", "u", "n", "k", "s", " ", "|", "|", " ",
      "[", "]", ")", ".", "m", "a", "p", " ", "i", "s", " ", "n", "o", "t", " ", "a", " ", "f",
      "u", "n", "c", "t", "i", "o", "n">>
Json_Scenario3 ==
    <<"{", "\"", "s", "e", "g", "m", "e", "n", "t", "s", "\"", ":", "[", "{", "\"", "s", "t", "a",
      "r", "t", "\"", ":", "0", ",", "\"", "e", "n", "d", "\"", ":", "1", ".", "2", ",", "\"",
      " ", "t", "e", "x", "t", " ", "\"", ":", "\"", " ", "H", "i", " ", "\"", "}", "]", "}">>
Json_OneSegment ==
    <<"{", "\"", "s", "e", "g", "m", "e", "n", "t", "s", "\"", ":", "[", "{", "\"", "s", "t", "a",
      "r", "t", "\"", ":", "0", ",", "\"", "e", "n", "d", "\"", ":", "1", ".", "2", ",", "\"",
      "t", "e", "x", "t", "\"", ":", "\"", " ", "H", "i", " ", "\"", "}", "]", "}">>
Json_TwoSegments ==
    <<"{", "\"", "s", "e", "g", "m", "e", "n", "t", "s", "\"", ":", "[", "{", "\"", "s", "t", "a",
      "r", "t", "\"", ":", "4", ",", "\"", "e", "n", "d", "\"", ":", "6", ",", "\"", "t", "e",
      "x", "t", "\"", ":", "\"", " ", "N", "a", "m", "a", "s", "t", "e", "\"", "}", ",", "{",
      "\"", "s", "t", "a", "r", "t", "\"", ":", "1", ",", "\"", "e", "n", "d", "\"", ":", "3",
      ".", "5", ",", "\"", "t", "e", "x", "t", "\"", ":", "\"", " ", " ", "\"", "}", "]", "}">>
Json_NoSegments == <<"{", "\"", "t", "e", "x", "t", "\"", ":", "\"", "H", "i", "\"", "}">>
Json_SegmentsNotArray == <<"{", "\"", "s", "e", "g", "m", "e", "n", "t", "s", "\"", ":", "\"", "H", "i", "\"", "}">>
Json_Null == <<"n", "u", "l", "l">>
Json_Truncated ==
    <<"{", "\"", "s", "e", "g", "m", "e", "n", "t", "s", "\"", ":", "[", "{", "\"", "s", "t", "a",
      "r", "t", "\"", ":", "0", ",">>

\* `...whisper.load_model('${model}')"`
Msg_SimpleSSL(mdl) == Msg_SimpleSSLHead \o mdl \o Msg_SimpleSSLTail

(***************************************************************************)
(* JSON.parse on the documents the processes write.  A document is given   *)
(* with the value it parses to; any other text is a syntax error.  An      *)
(* element of a segments array is the function from its keys to its        *)
(* values (numbers in milliseconds, strings as character sequences).       *)
(***************************************************************************)
Element(a, b, key, x) == (key :> x) @@ [start |-> a, end |-> b]

JsonDocs ==
    <<[text |-> Json_Scenario3,
       value |-> JObj([segments |-> JArr(<<Element(0, 1200, " text ", PaddedHi)>>)])],
      [text |-> Json_OneSegment,
       value |-> JObj([segments |-> JArr(<<Element(0, 1200, "text", PaddedHi)>>)])],
      [text |-> Json_TwoSegments,
       value |-> JObj([segments |->
                    JArr(<<Element(4000, 6000, "text", <<" ">> \o Namaste),
                           Element(1000, 3500, "text", <<" ", " ">>)>>)])],
      [text |-> Json_NoSegments, value |-> JObj([text |-> JStr(Hi)])],
      [text |-> Json_SegmentsNotArray, value |-> JObj([segments |-> JStr(Hi)])],
      [text |-> Json_Null, value |-> JNull]>>

JSONparse(text) ==
    LET hit == {i \in 1..Len(JsonDocs) : JsonDocs[i].text = text}
    IN  IF hit = {} THEN [ok |-> FALSE, v |-> JUndefined]
        ELSE [ok |-> TRUE, v |-> JsonDocs[CHOOSE i \in hit : TRUE].value]

\* The message of the error a failing unlink throws.
Err_UnlinkEPERM ==
    <<"E", "P", "E", "R", "M", ":", " ", "o", "p", "e", "r", "a", "t", "i", "o", "n", " ", "n",
      "o", "t", " ", "p", "e", "r", "m", "i", "t", "t", "e", "d", ",", " ", "u", "n", "l", "i",
      "n", "k">>
ModelHinglish ==
    <<"O", "r", "i", "s", "e", "r", "v", "e", "/", "W", "h", "i", "s", "p", "e", "r", "-", "H",
      "i", "n", "d", "i", "2", "H", "i", "n", "g", "l", "i", "s", "h", "-", "S", "w", "i", "f",
      "t">>
Err_FfmpegExit ==
    <<"f", "f", "m", "p", "e", "g", " ", "e", "x", "i", "t", "e", "d", " ", "w", "i", "t", "h",
      " ", "c", "o", "d", "e", " ", "1">>
Err_InvalidWav == <<"I", "n", "v", "a", "l", "i", "d", " ", "W", "A", "V", " ", "f", "i", "l", "e">>

(***************************************************************************)
(* Paths                                                                   *)
(***************************************************************************)
Path(dir, base, suffix) == [dir |-> dir, base |-> base, suffix |-> suffix]

AudioPath == Path("uploads", "audio", ".mp3")

\* An input that already is a WAV file.
WavAudioPath == Path("uploads", "speech", ".wav")

\* audioFilePath.endsWith('.wav')
EndsWithWav(p) == p.suffix = ".wav"

\* path.join(path.dirname(audio), `${path.basename(audio, path.extname(audio))}${suffix}`)
Sibling(audio, suffix) == Path(audio.dir, audio.base, suffix)

Exists(fs, p) == p \in DOMAIN fs
WriteFile(fs, p, content) == [q \in DOMAIN fs \cup {p} |-> IF q = p THEN content ELSE fs[q]]
\* A removal that leaves the file where it is.
RemoveNothing(fs, p) == fs

Remove(fs, p) == [q \in DOMAIN fs \ {p} |-> fs[q]]

(***************************************************************************)
(* The 'close' handlers                                                    *)
(***************************************************************************)
HasText(sg) == Len(sg.text) > 0

\* segment => ({start, end, text: segment.text}) : the text left as it is.
TransformSegmentNoTrim(el) == [start |-> el.start, end |-> el.end, text |-> el.text]

\* segment => ({start: segment.start, end: segment.end, text: segment.text.trim()})
TransformSegment(el) == [start |-> el.start, end |-> el.end, text |-> Trim(el.text)]

\* processAudioWithWhisper, whisperProcess.on('close'): the outcome it settles
\* the promise with.  segment.text.trim() throws when an element has no text.
processAudioWithWhisper_close(code, out, err) ==
    IF code /= 0 THEN Rejected(Msg_WhisperFailed \o err)
    ELSE LET result == JSONparse(out)
             segs == Get(result.v, "segments")
         IN  IF ~result.ok \/ result.v.t = "null" THEN Rejected(Msg_ParseFailed)
             ELSE IF ~Truthy(segs) \/ segs.t /= "arr" THEN Rejected(Msg_InvalidOutput)
             ELSE IF \E i \in 1..Len(segs.v) : "text" \notin DOMAIN segs.v[i]
                  THEN Rejected(Msg_ParseFailed)
             ELSE Resolved(JArr(SelectSeq(
                      [i \in 1..Len(segs.v) |-> TransformSegment(segs.v[i])], HasText)))

\* The handler of processAudioWithWhisperSimple reporting a missing .srt file
\* as the failure of the process.
processAudioWithWhisperSimple_closeMissingAsFailure(code, err, mdl, fs, audio, rmFails) ==
    LET srtPath == Sibling(audio, ".srt")
    IN  IF code /= 0
        THEN IF Includes(err, Str_CertVerifyFailed) \/ Includes(err, Str_SSLColon)
             THEN [o |-> Rejected(Msg_SimpleSSL(mdl)), fs |-> fs]
             ELSE [o |-> Rejected(Msg_WhisperFailed \o err), fs |-> fs]
        ELSE IF Exists(fs, srtPath)
        THEN [o |-> Resolved(JArr(parseSRTContent(fs[srtPath]))),
              fs |-> IF rmFails THEN fs
                     ELSE Remove(Remove(fs, srtPath), Sibling(audio, ".txt"))]
        ELSE [o |-> Rejected(Msg_WhisperFailed \o err), fs |-> fs]

\* processAudioWithWhisperSimple, whisperProcess.on('close'): the outcome and
\* the file system it leaves.  rmFails: fs.remove of the .srt file throws, which
\* the inner catch turns into a warning.
processAudioWithWhisperSimple_close(code, err, mdl, fs, audio, rmFails) ==
    LET srtPath == Sibling(audio, ".srt")
    IN  IF code /= 0
        THEN IF Includes(err, Str_CertVerifyFailed) \/ Includes(err, Str_SSLColon)
             THEN [o |-> Rejected(Msg_SimpleSSL(mdl)), fs |-> fs]
             ELSE [o |-> Rejected(Msg_WhisperFailed \o err), fs |-> fs]
        ELSE IF Exists(fs, srtPath)
        THEN [o |-> Resolved(JArr(parseSRTContent(fs[srtPath]))),
              fs |-> IF rmFails THEN fs
                     ELSE Remove(Remove(fs, srtPath), Sibling(audio, ".txt"))]
        ELSE [o |-> Rejected(Msg_NoOutputFile), fs |-> fs]

\* processAudioWithHinglishWhisper, pythonProcess.on('close').
\* transcriptionData.segments?.length throws when the document is null.
\* rmFails: fs.unlinkSync throws, inside the try block that parses the file.
processAudioWithHinglishWhisper_close(code, err, fs, audio, rmFails) ==
    LET outputFile == Sibling(audio, "_hinglish.json")
        transcriptionData == JSONparse(fs[outputFile])
        segs == Get(transcriptionData.v, "segments")
    IN  IF code /= 0
        THEN IF Includes(err, Str_SSL) \/ Includes(err, Str_Certificate)
             THEN [o |-> Rejected(Msg_HinglishSSL), fs |-> fs]
             ELSE [o |-> Rejected(Msg_HinglishFailed \o err), fs |-> fs]
        ELSE IF ~Exists(fs, outputFile)
        THEN [o |-> Rejected(Msg_HinglishNoFile), fs |-> fs]
        ELSE IF ~transcriptionData.ok
        THEN [o |-> Rejected(Msg_HinglishParseFailed \o Err_UnexpectedToken), fs |-> fs]
        ELSE IF transcriptionData.v.t = "null"
        THEN [o |-> Rejected(Msg_HinglishParseFailed \o Err_NullSegments), fs |-> fs]
        ELSE IF rmFails
        THEN [o |-> Rejected(Msg_HinglishParseFailed \o Err_UnlinkEPERM), fs |-> fs]
        ELSE [o |-> Resolved(IF Truthy(segs) THEN segs ELSE JArr(<< >>)),
              fs |-> Remove(fs, outputFile)]

\* What the conversion with ffmpeg comes to.
ConvertOutcomes == {"ok", "fails", "partial"}

\* The content of a WAV file ffmpeg wrote, whole or cut short by a failure.
WavData == <<"R", "I", "F", "F">>
PartialWavData == <<"R", "I">>

\* convertToWav(inputPath): the promise it returns and the file system it
\* leaves.  how = "ok": ffmpeg ends, the promise resolves with wavPath;
\* "fails": ffmpeg fails before it has opened its output; "partial": ffmpeg
\* fails after it has written a part of the output.
convertToWav(fs, inputPath, how) ==
    LET wp == Sibling(inputPath, ".wav")
    IN  IF how = "ok" THEN [ok |-> TRUE, path |-> <<wp>>, fs |-> WriteFile(fs, wp, WavData)]
        ELSE IF how = "partial"
        THEN [ok |-> FALSE, path |-> << >>, fs |-> WriteFile(fs, wp, PartialWavData)]
        ELSE [ok |-> FALSE, path |-> << >>, fs |-> fs]

\* The finally block of transcribeWithJS:
\* if (wavPath && wavPath !== audioFilePath) await fs.remove(wavPath).catch(() => {})
transcribeWithJS_finally(fs, wp, audio, rmFails) ==
    IF wp /= << >> /\ wp[1] /= audio /\ ~rmFails THEN Remove(fs, wp[1]) ELSE fs

\* chunk => ({start: chunk.timestamp[0], end: chunk.timestamp[1], text: chunk.text.trim()})
TransformChunk(c) ==
    [start |-> c.timestamp[1], end |-> c.timestamp[2], text |-> Trim(c.text)]

\* transcribeWithJS past the check of the audio file: the try / catch around
\* the conversion, the model call and the mapping of result.chunks.
transcribeWithJS_result(res) ==
    LET chunks == Get(res.value, "chunks")
        list == IF Truthy(chunks) THEN chunks.v ELSE << >>
    IN  IF res.threw THEN Rejected(Msg_JSFailed \o res.message)
        ELSE IF Truthy(chunks) /\ chunks.t /= "arr"
        THEN Rejected(Msg_JSFailed \o Err_MapNotFunction)
        ELSE IF \E i \in 1..Len(list) : "text" \notin DOMAIN list[i]
        THEN Rejected(Msg_JSFailed \o Err_NoTrim)
        ELSE Resolved(JArr(SelectSeq(
                 [i \in 1..Len(list) |-> TransformChunk(list[i])], HasText)))

(***************************************************************************)
(* What the external process may do                                        *)
(***************************************************************************)
\* Where a text that arrives in two chunks is cut.
SplitAt == 20

Chunks(text) == <<SubSeq(text, 1, SplitAt), SubSeq(text, SplitAt + 1, Len(text))>>

Variants == {"StructuredCLI", "SRTFileCLI", "SpecializedModel", "InProcess"}
Models == {ModelBase, ModelLarge}

\* module.exports with every name standing for the function of that name.
ExportedAsNamed(name) == name

\* module.exports: the function a name of the backend module stands for.
Exported(name) ==
    IF name = "processAudioWithWhisper" THEN "processAudioWithWhisperSimple" ELSE name

ExportedNames ==
    {"processAudioWithWhisper", "processAudioWithHinglishWhisper",
     "processAudioWithWhisperSimple"}

\* A call through the exports of the module, or of a function by itself;
\* model: << >> when the argument is left out.
Via(name, arg) == [via |-> "exports", name |-> name, model |-> arg]
Direct(name, arg) == [via |-> "direct", name |-> name, model |-> arg]

\* The function a call runs.
Callee(e) == IF e.via = "exports" THEN Exported(e.name) ELSE e.name

VariantOf(fn) ==
    IF fn = "processAudioWithWhisper" THEN "StructuredCLI"
    ELSE IF fn = "processAudioWithWhisperSimple" THEN "SRTFileCLI"
    ELSE IF fn = "processAudioWithHinglishWhisper" THEN "SpecializedModel"
    ELSE "InProcess"

\* The default of the model parameter: model = 'base', model = 'large',
\* model = 'Oriserve/Whisper-Hindi2Hinglish-Swift'.
DefaultModel(fn) ==
    IF fn = "processAudioWithWhisper" THEN ModelBase
    ELSE IF fn = "processAudioWithWhisperSimple" THEN ModelLarge
    ELSE ModelHinglish

ModelOf(e) == IF e.model = << >> THEN DefaultModel(Callee(e)) ELSE e.model[1]

ModelArgs == {<< >>} \cup {<<m>> : m \in Models}

Calls ==
    {Via(n, arg) : n \in ExportedNames, arg \in ModelArgs}
        \cup {Direct("processAudioWithWhisper", arg) : arg \in ModelArgs}
        \cup {Direct("transcribeWithJS", <<m>>) : m \in Models}

\* The audio files a function is called with.
AudioInputs(v) == IF v = "InProcess" THEN {AudioPath, WavAudioPath} ELSE {AudioPath}
ExitCodes == {0, 1}

ErrOutputs ==
    {<< >>, <<Err_ModelNotFound>>, <<Err_CertHead, Err_CertTail>>, <<Err_SSLColon>>,
     <<Err_BadCertificate>>, <<Err_Progress>>}

JsonOutputs ==
    {Json_Scenario3, Json_OneSegment, Json_TwoSegments, Json_NoSegments,
     Json_SegmentsNotArray, Json_Null, Json_Truncated}

StdoutOutputs == {<< >>} \cup {<<t>> : t \in JsonOutputs \ {Json_TwoSegments}}
                    \cup {Chunks(Json_TwoSegments)}

LogOutputs == {<< >>, <<Err_Progress>>}

\* An .srt file whose first block has a text line of one space.
Srt_BlankText ==
    <<"1", NL, "0", "0", ":", "0", "0", ":", "0", "1", ",", "0", "0", "0", " ", "-", "-", ">",
      " ", "0", "0", ":", "0", "0", ":", "0", "3", ",", "5", "0", "0", NL, " ", NL, NL, "2", NL,
      "0", "0", ":", "0", "0", ":", "0", "4", ",", "0", "0", "0", " ", "-", "-", ">", " ", "0",
      "0", ":", "0", "0", ":", "0", "6", ",", "0", "0", "0", NL, "N", "a", "m", "a", "s", "t",
      "e", NL, NL>>
\* An .srt file whose blocks are not in the order of their start times.
Srt_Unordered ==
    <<"1", NL, "0", "0", ":", "0", "0", ":", "0", "4", ",", "0", "0", "0", " ", "-", "-", ">",
      " ", "0", "0", ":", "0", "0", ":", "0", "6", ",", "0", "0", "0", NL, "N", "a", "m", "a",
      "s", "t", "e", NL, NL, "2", NL, "0", "0", ":", "0", "0", ":", "0", "1", ",", "0", "0", "0",
      " ", "-", "-", ">", " ", "0", "0", ":", "0", "0", ":", "0", "3", ",", "5", "0", "0", NL,
      "H", "e", "l", "l", "o", " ", "w", "o", "r", "l", "d", NL, NL>>

SrtOutputs == {Scenario1Text, HelloWorld, Srt_BlankText, Srt_Unordered}

Script(fails, out, err, code, file) ==
    [NoScript EXCEPT !.spawnFails = fails, !.out = out, !.err = err, !.code = code,
                     !.file = file]

\* The in-process variant starts no process: only the model call has a result.
Inference(res) == [NoScript EXCEPT !.result = res]

\* { timestamp: [a, b], <key>: x }
Chunk(a, b, key, x) == (key :> x) @@ [timestamp |-> <<a, b>>]

InferenceResults ==
    {Threw(Err_ModelNotFound),
     Threw(Err_InvalidWav),
     Returned(JObj([chunks |-> JArr(<<Chunk(0, 1200, "text", PaddedHi)>>)])),
     Returned(JObj([chunks |-> JArr(<<Chunk(4000, 6000, "text", <<" ">> \o Namaste),
                                      Chunk(1000, 3500, "text", <<" ", " ">>)>>)])),
     Returned(JObj([chunks |-> JArr(<<Chunk(3500, 4000, "text", Namaste),
                                      Chunk(1000, 3500, "text", HelloWorld)>>)])),
     Returned(JObj([chunks |-> JArr(<<Chunk(0, 1200, "words", PaddedHi)>>)])),
     Returned(JObj([chunks |-> JStr(Hi)])),
     Returned(JObj([text |-> JStr(Hi)]))}

\* The process could not be started: no output, 'error', then 'close'.
FailedSpawn == Script(TRUE, << >>, << >>, -2, << >>)

\* The output file is there and the process has ended well, but the file
\* cannot be deleted.
Undeletable(scs) ==
    {[sc EXCEPT !.rmFails = TRUE] :
        sc \in {x \in scs : x.code = 0 /\ x.file /= << >> /\ x.out = << >> /\ x.err = << >>}}

\* The in-process variant: the conversion fails, or the temporary file cannot
\* be deleted, or neither.
InProcessScripts ==
    {Inference(res) : res \in InferenceResults}
        \cup {[Inference(Threw(Err_FfmpegExit)) EXCEPT !.convert = c] : c \in {"fails", "partial"}}
        \cup {[Inference(res) EXCEPT !.rmFails = TRUE] :
                 res \in {Threw(Err_ModelNotFound),
                          Returned(JObj([chunks |-> JArr(<<Chunk(0, 1200, "text", PaddedHi)>>)]))}}

Scripts(v) ==
    IF v = "InProcess" THEN InProcessScripts
    ELSE {FailedSpawn} \cup
    IF v = "StructuredCLI"
    THEN {Script(FALSE, out, err, code, << >>) :
            out \in StdoutOutputs, err \in ErrOutputs, code \in ExitCodes}
    ELSE IF v = "SRTFileCLI"
    THEN LET scs == {Script(FALSE, out, err, code, file) :
                        out \in LogOutputs, err \in ErrOutputs, code \in ExitCodes,
                        file \in {<< >>} \cup {<<t>> : t \in SrtOutputs}}
         IN  scs \cup Undeletable(scs)
    ELSE LET scs == {Script(FALSE, out, err, code, file) :
                        out \in LogOutputs, err \in ErrOutputs, code \in ExitCodes,
                        file \in {<< >>} \cup {<<t>> : t \in JsonOutputs}}
         IN  scs \cup Undeletable(scs)

OutputPath(v) ==
    IF v = "SRTFileCLI" THEN Sibling(AudioPath, ".srt") ELSE Sibling(AudioPath, "_hinglish.json")

(***************************************************************************)
(* One invocation of a backend as a state machine                          *)
(***************************************************************************)
\* The buffer overwritten by the chunk.
ReplaceByChunk(buffer, data) == data

\* buffer += data.toString()
AppendChunk(buffer, data) == buffer \o data

\* A promise that every call of resolve / reject settles anew.
SettleLast(o) == o

\* resolve / reject: only the first call settles the promise.
Settle(o) == IF outcome.kind = "pending" THEN o ELSE outcome

InitBackend ==
    /\ variant = "none"
    /\ model = EmptyStr
    /\ files \in {NoFiles,
                  WriteFile(WriteFile(NoFiles, AudioPath, EmptyStr), WavAudioPath, WavData)}
    /\ script = NoScript
    /\ audioFilePath = NoPath
    /\ wavPath = << >>
    /\ calledAs = NoEntry
    /\ outq = << >>
    /\ errq = << >>
    /\ written = FALSE
    /\ stdout = EmptyStr
    /\ stderr = EmptyStr
    /\ outcome = Pending
    /\ bpc = "idle"
    /\ RenderIdle
    /\ CodecIdle
    /\ CoordIdle
    /\ UploadIdle
    /\ JobsIdle

\* The functions that look for the audio file before anything else.
ChecksAudio == {"StructuredCLI", "InProcess"}

\* The function is called: the promise executor up to the registration of the
\* handlers, transcribeWithJS up to the try block.  Only processAudioWithWhisper
\* and transcribeWithJS look for the audio file.
Invoke(e, a, sc) ==
    /\ bpc = "idle"
    /\ calledAs' = e
    /\ audioFilePath' = a
    /\ variant' = VariantOf(Callee(e))
    /\ model' = ModelOf(e)
    /\ \/ /\ variant' \in ChecksAudio
          /\ ~Exists(files, a)
          /\ outcome' = Rejected(Msg_AudioNotFound)
          /\ bpc' = "done"
          /\ UNCHANGED <<script, outq, errq>>
       \/ /\ variant' \in ChecksAudio => Exists(files, a)
          /\ script' = sc
          /\ outq' = sc.out
          /\ errq' = sc.err
          /\ bpc' = "running"
          /\ UNCHANGED outcome
    /\ UNCHANGED <<files, written, stdout, stderr, wavPath,
                   renderVars, codecVars, coordVars, uploadVars, jobVars>>

\* stdout.on('data'): processAudioWithWhisper accumulates, the others only log.
StdoutData ==
    /\ bpc = "running"
    /\ outq /= << >>
    /\ stdout' = IF variant = "StructuredCLI" THEN AppendChunk(stdout, Head(outq)) ELSE stdout
    /\ outq' = Tail(outq)
    /\ UNCHANGED <<variant, model, files, script, errq, written, stderr, outcome, bpc,
                   audioFilePath, wavPath, calledAs,
                   renderVars, codecVars, coordVars, uploadVars, jobVars>>

\* stderr.on('data'): stderr += data.toString()
StderrData ==
    /\ bpc = "running"
    /\ errq /= << >>
    /\ stderr' = AppendChunk(stderr, Head(errq))
    /\ errq' = Tail(errq)
    /\ UNCHANGED <<variant, model, files, script, outq, written, stdout, outcome, bpc,
                   audioFilePath, wavPath, calledAs,
                   renderVars, codecVars, coordVars, uploadVars, jobVars>>

\* The external process writes its result file.
ProcessWritesOutput ==
    /\ bpc = "running"
    /\ script.file /= << >>
    /\ ~written
    /\ files' = WriteFile(files, OutputPath(variant), script.file[1])
    /\ written' = TRUE
    /\ UNCHANGED <<variant, model, script, outq, errq, stdout, stderr, outcome, bpc,
                   audioFilePath, wavPath, calledAs,
                   renderVars, codecVars, coordVars, uploadVars, jobVars>>

\* An 'error' handler that only logs and leaves the promise alone.
OnErrorLogsOnly ==
    /\ bpc = "running"
    /\ script.spawnFails
    /\ bpc' = "errored"
    /\ UNCHANGED <<variant, model, files, script, outq, errq, written, stdout, stderr,
                   outcome, audioFilePath, wavPath, calledAs,
                   renderVars, codecVars, coordVars, uploadVars, jobVars>>

\* on('error'): the process could not be started.
OnError ==
    /\ bpc = "running"
    /\ script.spawnFails
    /\ outcome' = Settle(Rejected(
            IF variant = "SpecializedModel" THEN Msg_HinglishStartFailed \o Err_ENOENT
            ELSE Msg_StartFailed))
    /\ bpc' = "errored"
    /\ UNCHANGED <<variant, model, files, script, outq, errq, written, stdout, stderr,
                   audioFilePath, wavPath, calledAs,
                   renderVars, codecVars, coordVars, uploadVars, jobVars>>

\* on('close'): emitted once the process has ended and its streams are closed,
\* so after every chunk has been delivered; after 'error' when the spawn failed.
OnClose ==
    /\ \/ /\ bpc = "running"
          /\ ~script.spawnFails
          /\ outq = << >>
          /\ errq = << >>
          /\ script.file /= << >> => written
       \/ bpc = "errored"
    /\ variant /= "InProcess"
    /\ \/ /\ variant = "StructuredCLI"
          /\ outcome' = Settle(processAudioWithWhisper_close(script.code, stdout, stderr))
          /\ UNCHANGED files
       \/ /\ variant = "SRTFileCLI"
          /\ LET r == processAudioWithWhisperSimple_close(
                          script.code, stderr, model, files, audioFilePath, script.rmFails)
             IN  outcome' = Settle(r.o) /\ files' = r.fs
       \/ /\ variant = "SpecializedModel"
          /\ LET r == processAudioWithHinglishWhisper_close(
                          script.code, stderr, files, audioFilePath, script.rmFails)
             IN  outcome' = Settle(r.o) /\ files' = r.fs
    /\ bpc' = "closed"
    /\ UNCHANGED <<variant, model, script, outq, errq, written, stdout, stderr,
                   audioFilePath, wavPath, calledAs,
                   renderVars, codecVars, coordVars, uploadVars, jobVars>>

\* transcribeWithJS, the first statement of the try block:
\* wavPath = audioFilePath.endsWith('.wav') ? audioFilePath : await convertToWav(...)
\* A conversion that fails goes to the catch and the finally block with
\* wavPath still undefined.
ResolveWavPath ==
    /\ bpc = "running"
    /\ variant = "InProcess"
    /\ IF EndsWithWav(audioFilePath)
       THEN /\ wavPath' = <<audioFilePath>>
            /\ bpc' = "converted"
            /\ UNCHANGED <<files, outcome>>
       ELSE LET c == convertToWav(files, audioFilePath, script.convert)
            IN  IF c.ok
                THEN /\ wavPath' = c.path
                     /\ files' = c.fs
                     /\ bpc' = "converted"
                     /\ UNCHANGED outcome
                ELSE /\ outcome' = Settle(Rejected(Msg_JSFailed \o Err_FfmpegExit))
                     /\ files' = transcribeWithJS_finally(
                                     c.fs, wavPath, audioFilePath, script.rmFails)
                     /\ bpc' = "returned"
                     /\ UNCHANGED wavPath
    /\ UNCHANGED <<variant, model, script, outq, errq, written, stdout, stderr,
                   audioFilePath, calledAs, renderVars, codecVars, coordVars, uploadVars,
                   jobVars>>

\* transcribeWithJS: the rest of the try block runs to its end or into the
\* catch, then the finally block.
Transcribe ==
    /\ bpc = "converted"
    /\ variant = "InProcess"
    /\ outcome' = Settle(transcribeWithJS_result(script.result))
    /\ files' = transcribeWithJS_finally(files, wavPath, audioFilePath, script.rmFails)
    /\ bpc' = "returned"
    /\ UNCHANGED <<variant, model, script, outq, errq, written, stdout, stderr,
                   audioFilePath, wavPath, calledAs,
                   renderVars, codecVars, coordVars, uploadVars, jobVars>>

NextBackend ==
    \/ \E e \in Calls :
          \E a \in AudioInputs(VariantOf(Callee(e))), sc \in Scripts(VariantOf(Callee(e))) :
              Invoke(e, a, sc)
    \/ ResolveWavPath
    \/ Transcribe
    \/ StdoutData
    \/ StderrData
    \/ ProcessWritesOutput
    \/ OnError
    \/ OnClose

SpecBackend == InitBackend /\ [][NextBackend]_vars

(***************************************************************************)
(* Claims about the backends                                               *)
(***************************************************************************)
StartsWith(s, prefix) == Len(s) >= Len(prefix) /\ SubSeq(s, 1, Len(prefix)) = prefix

\* Everything the process wrote to a stream, chunk after chunk.
Whole(chunks) == Join(chunks, EmptyStr)

\* A process was started and 'close' has been handled.
Exited == bpc = "closed" /\ ~script.spawnFails

\* "... transcription failed: <stderr>"
IsGenericFailure(m) == StartsWith(m, Msg_WhisperFailed) \/ StartsWith(m, Msg_HinglishFailed)

\* "... model download failed due to SSL/network issues ..."
IsNetworkError(m) == m = Msg_HinglishSSL \/ \E mdl \in Models : m = Msg_SimpleSSL(mdl)

\* The messages for output that cannot be read into the expected shape.
IsOutputFormatError(m) ==
    \/ m \in {Msg_InvalidOutput, Msg_ParseFailed, Msg_NoOutputFile, Msg_HinglishNoFile}
    \/ StartsWith(m, Msg_HinglishParseFailed)

OneSegmentHi == <<[start |-> 0, end |-> 1200, text |-> Hi]>>

\* C6 as stated: StructuredCLI, exit code 0, stdout the payload
\* {"segments":[{"start":0,"end":1.2," text ":" Hi "}]} (the key is " text ",
\* with the spaces): the outcome is a transcript of exactly one segment with
\* the text "Hi".
C6_Scenario3AsWritten ==
    (/\ Exited
     /\ variant = "StructuredCLI"
     /\ script.code = 0
     /\ stdout = Json_Scenario3)
        => (outcome.kind = "resolved" /\ outcome.value.v = OneSegmentHi)

\* C6, amended: with the key "text", i.e. stdout the payload
\* {"segments":[{"start":0,"end":1.2,"text":" Hi "}]}, the outcome is a
\* transcript of exactly one segment with the text trimmed to "Hi".
C6_Scenario3TextKey ==
    (/\ Exited
     /\ variant = "StructuredCLI"
     /\ script.code = 0
     /\ stdout = Json_OneSegment)
        => (outcome.kind = "resolved" /\ outcome.value.v = OneSegmentHi)

C6_Witness ==
    /\ Exited
    /\ variant = "StructuredCLI"
    /\ script.code = 0
    /\ stdout = Json_OneSegment
    /\ outcome.kind = "resolved"
    /\ Len(outcome.value.v) = 1

\* C7 as stated: in every variant an exit with a non-zero code gives a failed
\* outcome whose message includes the captured standard-error text.
C7_FailureCarriesStderr ==
    (Exited /\ script.code /= 0) =>
        (outcome.kind = "rejected" /\ Includes(outcome.message, Whole(script.err)))

\* C7, amended: in every variant an exit with a non-zero code gives a failed
\* outcome whose message includes the captured standard-error text, unless it
\* is the network/certificate message (a fixed text); exit code 1 with stderr
\* "model not found" gives the generic failure containing "model not found".
C7_FailureCarriesStderrUnlessNetwork ==
    (Exited /\ script.code /= 0) =>
        /\ outcome.kind = "rejected"
        /\ IsNetworkError(outcome.message)
              \/ (/\ IsGenericFailure(outcome.message)
                  /\ Includes(outcome.message, Whole(script.err)))
        /\ Whole(script.err) = Err_ModelNotFound =>
              (/\ IsGenericFailure(outcome.message)
               /\ Includes(outcome.message, Err_ModelNotFound))

\* Exit code 1 with stderr that came in two chunks, reported with all of it.
C7_Witness ==
    /\ Exited
    /\ script.code = 1
    /\ Len(script.err) = 2
    /\ outcome.kind = "rejected"
    /\ IsGenericFailure(outcome.message)
    /\ Includes(outcome.message, Whole(script.err))

\* C8: in every variant (StructuredCLI, SRTFileCLI, SpecializedModel) a
\* non-zero exit whose stderr contains "certificate verify failed" is reported
\* as the network/certificate error and not as the generic failure.
C8_CertificateReclassified ==
    (/\ Exited
     /\ script.code /= 0
     /\ Includes(Whole(script.err), Str_CertVerifyFailed))
        => (/\ outcome.kind = "rejected"
            /\ IsNetworkError(outcome.message)
            /\ ~IsGenericFailure(outcome.message))

\* Output of the expected shape, per variant.
WellFormedOutput ==
    \/ variant = "StructuredCLI" /\ Whole(script.out) \in {Json_OneSegment, Json_TwoSegments}
    \/ variant = "SRTFileCLI" /\ script.file = <<Scenario1Text>>
    \/ variant = "SpecializedModel"
          /\ script.file \in {<<Json_OneSegment>>, <<Json_TwoSegments>>}

\* C9: failure is decided by the exit status alone: with exit code 0 and
\* well-formed output the invocation succeeds whatever was written to stderr,
\* and an error after exit code 0 is never one of the messages chosen from
\* stderr (the generic failure, the network/certificate error).
C9_ExitStatusDecides ==
    (Exited /\ script.code = 0) =>
        /\ WellFormedOutput => outcome.kind = "resolved"
        /\ outcome.kind = "rejected" =>
              (/\ ~IsGenericFailure(outcome.message)
               /\ ~IsNetworkError(outcome.message))

\* Output that cannot be read into the expected shape: malformed JSON, JSON
\* without a segments array, or no output file.
UnreadableJson == {Json_Truncated, Json_NoSegments, Json_SegmentsNotArray, Json_Null}

UnreadableOutput ==
    \/ variant = "StructuredCLI" /\ Whole(script.out) \in UnreadableJson \cup {EmptyStr}
    \/ variant = "SRTFileCLI" /\ script.file = << >>
    \/ variant = "SpecializedModel"
          /\ (script.file = << >> \/ script.file[1] \in UnreadableJson)

\* C10: with exit code 0 and output that cannot be read into the expected
\* shape, every variant fails with an output-format error; none succeeds with
\* an empty or partial transcript.
C10_UnreadableOutputFails ==
    (Exited /\ script.code = 0 /\ UnreadableOutput) =>
        (outcome.kind = "rejected" /\ IsOutputFormatError(outcome.message))

\* C11: SRTFileCLI, exit code 0, but no <basename>.srt file in the output
\* directory: the invocation fails, no transcript is returned, and the error
\* is not the process failure "Whisper transcription failed: <stderr>" (nor
\* the network/certificate or the launch failure).
C11_MissingSrtIsDistinctError ==
    (/\ Exited
     /\ variant = "SRTFileCLI"
     /\ script.code = 0
     /\ ~Exists(files, Sibling(AudioPath, ".srt"))
     /\ script.file = << >>)
        => (/\ outcome.kind = "rejected"
            /\ outcome.message = Msg_NoOutputFile
            /\ ~IsGenericFailure(outcome.message)
            /\ ~IsNetworkError(outcome.message)
            /\ outcome.message /= Msg_StartFailed)

\* Exit code 0 with text on stderr and no .srt file written.
C11_Witness ==
    /\ Exited
    /\ variant = "SRTFileCLI"
    /\ script.code = 0
    /\ script.file = << >>
    /\ stderr = Err_ModelNotFound
    /\ outcome = Rejected(Msg_NoOutputFile)

\* C12: in every variant an invocation whose audio file is absent fails with
\* 'Audio file not found', without starting the process or the model and
\* without being reported as a process or launch failure.
C12_MissingAudioRejected ==
    (variant /= "none" /\ ~Exists(files, AudioPath)) =>
        (/\ outcome = Rejected(Msg_AudioNotFound)
         /\ script = NoScript
         /\ bpc = "done")

\* "Failed to start ... transcription ..."
IsLaunchFailure(m) == m = Msg_StartFailed \/ StartsWith(m, Msg_HinglishStartFailed)

\* C13: when the process cannot be started (the child emits 'error'), every
\* CLI variant fails with the launch-failure error, which is neither the
\* process failure of a non-zero exit nor the network error, and this stays
\* so when the 'close' event that follows 'error' has been handled.
C13_LaunchFailureDistinct ==
    (script.spawnFails /\ bpc \in {"errored", "closed"}) =>
        (/\ outcome.kind = "rejected"
         /\ IsLaunchFailure(outcome.message)
         /\ ~IsGenericFailure(outcome.message)
         /\ ~IsNetworkError(outcome.message))

\* 'error' and then 'close' (with a non-zero code) have both been handled.
C13_Witness ==
    /\ script.spawnFails
    /\ bpc = "closed"
    /\ script.code /= 0
    /\ variant = "SRTFileCLI"
    /\ outcome = Rejected(Msg_StartFailed)

\* What the invocation yields from everything the process or the model
\* produced: all of stdout and stderr, the output file, the inference result.
OutcomeOfWholeOutput ==
    LET fs == IF script.file = << >> THEN NoFiles
              ELSE WriteFile(NoFiles, OutputPath(variant), script.file[1])
    IN  IF variant = "StructuredCLI"
        THEN processAudioWithWhisper_close(script.code, Whole(script.out), Whole(script.err))
        ELSE IF variant = "SRTFileCLI"
        THEN processAudioWithWhisperSimple_close(
                 script.code, Whole(script.err), model, fs, AudioPath, script.rmFails).o
        ELSE IF variant = "SpecializedModel"
        THEN processAudioWithHinglishWhisper_close(
                 script.code, Whole(script.err), fs, AudioPath, script.rmFails).o
        ELSE transcribeWithJS_result(script.result)

Delivered == outcome.kind /= "pending"

\* C14: an invocation delivers at most one outcome: nothing is delivered
\* while the process is running and data may still arrive, once 'close' or
\* 'error' has been handled the outcome is an error or a transcript, a
\* transcript is the one made from the whole output (never from a part of
\* it), and an outcome once delivered is never replaced.
C14_SingleCompleteOutcome ==
    /\ [](bpc = "running" => ~Delivered)
    /\ [](bpc \in {"errored", "closed", "returned", "done"} => Delivered)
    /\ [](outcome.kind = "resolved" =>
            (outq = << >> /\ errq = << >> /\ outcome = OutcomeOfWholeOutput))
    /\ [][Delivered => outcome' = outcome]_vars

\* A transcript delivered after stdout arrived in two chunks.
C14_Witness ==
    /\ bpc = "closed"
    /\ variant = "StructuredCLI"
    /\ Len(script.out) = 2
    /\ outcome.kind = "resolved"
    /\ Len(outcome.value.v) = 1

\* The value an invocation succeeded with, as a sequence of segments.
Returned_Segments == IF outcome.value.t = "arr" THEN outcome.value.v ELSE << >>

\* C16: no transcript returned by a variant (StructuredCLI, SRTFileCLI,
\* SpecializedModel, in-process) has a segment whose text is empty after
\* trimming: every text is there, trimmed, and not empty.
C16_NoEmptyText ==
    outcome.kind = "resolved" =>
        \A i \in 1..Len(Returned_Segments) :
            LET sg == Returned_Segments[i]
            IN  /\ "text" \in DOMAIN sg
                /\ sg.text = Trim(sg.text)
                /\ sg.text /= EmptyStr

\* C17: every transcript returned by a variant is in ascending order of
\* start, whatever the order of the SRT blocks or of the JSON array.
C17_OrderedByStart ==
    outcome.kind = "resolved" =>
        \A i, j \in 1..Len(Returned_Segments) :
            i < j => Returned_Segments[i].start <= Returned_Segments[j].start

(***************************************************************************)
(* Caption generation: generateCaptions of VideoUploader, the upload route *)
(* it posts to, and the functions the backend module exports.  The route   *)
(* itself (routes/upload) is modelled from its specification: it calls the *)
(* backend its endpoint stands for once and answers with what came of it.  *)
(***************************************************************************)
MaxRequests == 2

Ep_Hinglish ==
    <<"/", "u", "p", "l", "o", "a", "d", "-", "a", "u", "d", "i", "o", "-", "h", "i", "n", "g",
      "l", "i", "s", "h">>
Ep_General == <<"/", "u", "p", "l", "o", "a", "d", "-", "a", "u", "d", "i", "o">>
Msg_AlertPrefix ==
    <<"E", "r", "r", "o", "r", " ", "g", "e", "n", "e", "r", "a", "t", "i", "n", "g", " ", "c",
      "a", "p", "t", "i", "o", "n", "s", ":", " ">>
Msg_HttpError ==
    <<"H", "T", "T", "P", " ", "e", "r", "r", "o", "r", "!", " ", "s", "t", "a", "t", "u", "s",
      ":", " ">>
Msg_DefaultFailure ==
    <<"F", "a", "i", "l", "e", "d", " ", "t", "o", " ", "g", "e", "n", "e", "r", "a", "t", "e",
      " ", "c", "a", "p", "t", "i", "o", "n", "s">>
Err_FailedToFetch == <<"F", "a", "i", "l", "e", "d", " ", "t", "o", " ", "f", "e", "t", "c", "h">>
Status500 == <<"5", "0", "0">>

\* Every request to the specialized endpoint, whatever the flag.
EndpointAlwaysHinglish(flag) == Ep_Hinglish

\* useHinglishModel ? "/upload-audio-hinglish" : "/upload-audio"
EndpointFor(flag) == IF flag THEN Ep_Hinglish ELSE Ep_General

\* The backend function the route of an endpoint calls.
RouteBackend(ep) ==
    IF ep = Ep_Hinglish THEN Exported("processAudioWithHinglishWhisper")
    ELSE Exported("processAudioWithWhisper")

\* What a call of a backend function may come to.
BackendResults(fn) ==
    {Resolved(JArr(t)) : t \in {Scenario2Captions, OneSegmentHi, << >>}} \cup
    IF fn = "processAudioWithHinglishWhisper"
    THEN {Rejected(Msg_HinglishSSL), Rejected(Msg_HinglishNoFile)}
    ELSE {Rejected(Msg_NoOutputFile), Rejected(Msg_StartFailed)}

Answer(ok, status, success, transcription, srt, message) ==
    [ok |-> ok, status |-> status, success |-> success, transcription |-> transcription,
     srt |-> srt, message |-> message]

\* fetch itself rejected: no answer came.
NetworkFailure == Answer(FALSE, EmptyStr, FALSE, << >>, EmptyStr, Err_FailedToFetch)

\* The answers of the route: the transcript with its SRT text, or the failure
\* as an error status or as a body with success: false.
RouteAnswers(o) ==
    IF o.kind = "resolved"
    THEN {Answer(TRUE, <<"2", "0", "0">>, TRUE, o.value.v, encodeSRT(o.value.v), EmptyStr)}
    ELSE {Answer(FALSE, Status500, FALSE, << >>, EmptyStr, o.message),
          Answer(TRUE, <<"2", "0", "0">>, FALSE, << >>, EmptyStr, o.message),
          Answer(TRUE, <<"2", "0", "0">>, FALSE, << >>, EmptyStr, EmptyStr)}

\* The message of the error generateCaptions throws on an answer; << >> when
\* it throws none.
ThrownOn(a) ==
    IF a = NetworkFailure THEN <<a.message>>
    ELSE IF ~a.ok THEN <<Msg_HttpError \o a.status>>
    ELSE IF a.success THEN << >>
    ELSE <<IF a.message /= EmptyStr THEN a.message ELSE Msg_DefaultFailure>>

InitCoord ==
    /\ useHinglishModel = TRUE
    /\ isGeneratingCaptions = FALSE
    /\ endpoint = EmptyStr
    /\ invoked = << >>
    /\ response = << >>
    /\ uiCaptions = << >>
    /\ uiSrt = << >>
    /\ alertMsg = EmptyStr
    /\ requests = 0
    /\ kpc = "idle"
    /\ RenderIdle
    /\ CodecIdle
    /\ BackendIdle
    /\ JobsIdle
    /\ UploadIdle

\* The checkbox: setUseHinglishModel(b).
SetUseHinglishModel(b) ==
    /\ kpc /= "off"
    /\ useHinglishModel /= b
    /\ useHinglishModel' = b
    /\ UNCHANGED <<isGeneratingCaptions, endpoint, invoked, response, uiCaptions, uiSrt,
                   alertMsg, requests, kpc, renderVars, codecVars, backendVars, jobVars>>

\* generateCaptions up to the await of fetch, as the function of a render in
\* which useHinglishModel was flag.
GenerateCaptionsWith(flag) ==
    /\ kpc = "idle"
    /\ requests < MaxRequests
    /\ isGeneratingCaptions' = TRUE
    /\ endpoint' = EndpointFor(flag)
    /\ invoked' = << >>
    /\ response' = << >>
    /\ requests' = requests + 1
    /\ kpc' = "fetching"
    /\ UNCHANGED <<useHinglishModel, uiCaptions, uiSrt, alertMsg,
                   renderVars, codecVars, backendVars, jobVars>>

\* generateCaptions called in the render at hand.
GenerateCaptions == GenerateCaptionsWith(useHinglishModel)

\* The request does not reach the server.
FetchFails ==
    /\ kpc = "fetching"
    /\ response' = <<NetworkFailure>>
    /\ kpc' = "answered"
    /\ UNCHANGED <<useHinglishModel, isGeneratingCaptions, endpoint, invoked, uiCaptions,
                   uiSrt, alertMsg, requests, renderVars, codecVars, backendVars, jobVars>>

\* The route calls the backend of its endpoint.
RouteInvokesBackend ==
    /\ kpc = "fetching"
    /\ invoked' = Append(invoked, RouteBackend(endpoint))
    /\ kpc' = "transcribing"
    /\ UNCHANGED <<useHinglishModel, isGeneratingCaptions, endpoint, response, uiCaptions,
                   uiSrt, alertMsg, requests, renderVars, codecVars, backendVars, jobVars>>

\* The backend call has settled with o and the route answers with a.
RouteAnswersWith(o, a) ==
    /\ kpc = "transcribing"
    /\ response' = <<a>>
    /\ kpc' = "answered"
    /\ UNCHANGED <<useHinglishModel, isGeneratingCaptions, endpoint, invoked, uiCaptions,
                   uiSrt, alertMsg, requests, renderVars, codecVars, backendVars, jobVars>>

\* generateCaptions after the await: the checks of the answer, the catch
\* block with its alert, and the finally block.
ReceiveResponse ==
    /\ kpc = "answered"
    /\ LET a == response[1]
           thrown == ThrownOn(a)
       IN  IF thrown = << >>
           THEN /\ uiCaptions' = <<a.transcription>>
                /\ uiSrt' = <<a.srt>>
                /\ UNCHANGED alertMsg
           ELSE /\ alertMsg' = Msg_AlertPrefix \o thrown[1]
                /\ UNCHANGED <<uiCaptions, uiSrt>>
    /\ isGeneratingCaptions' = FALSE
    /\ kpc' = "idle"
    /\ UNCHANGED <<useHinglishModel, endpoint, invoked, response, requests,
                   renderVars, codecVars, backendVars, jobVars>>

\* generateCaptions called by itself: the uploader around it stays as it is.
NextCoord ==
    \/ \E b \in BOOLEAN : SetUseHinglishModel(b) /\ UNCHANGED uploadVars
    \/ GenerateCaptions /\ UNCHANGED uploadVars
    \/ FetchFails /\ UNCHANGED uploadVars
    \/ RouteInvokesBackend /\ UNCHANGED uploadVars
    \/ \E o \in BackendResults(RouteBackend(endpoint)) :
          \E a \in RouteAnswers(o) : RouteAnswersWith(o, a) /\ UNCHANGED uploadVars
    \/ ReceiveResponse /\ UNCHANGED uploadVars

SpecCoord == InitCoord /\ [][NextCoord]_vars

\* The request at hand got an answer telling of a failure.
FailureAnswered == kpc = "answered" /\ ThrownOn(response[1]) /= << >>

\* C15: a caption-generation request runs exactly one backend, the one the
\* 'use specialized model' flag stands for when the request is made; when it
\* fails the failure is shown to the caller, no other backend is called and
\* the same one is not called again.
C15_OneBackendNoRetry ==
    /\ [](Len(invoked) <= 1)
    /\ [](kpc \in {"transcribing", "answered"} /\ response /= <<NetworkFailure>>
             => invoked = <<RouteBackend(endpoint)>>)
    /\ [][kpc = "idle" /\ kpc' = "fetching" =>
             endpoint' = (IF useHinglishModel THEN Ep_Hinglish ELSE Ep_General)]_vars
    /\ [][FailureAnswered =>
             (/\ kpc' \in {"answered", "idle"}
              /\ kpc' = "idle" =>
                    (/\ StartsWith(alertMsg', Msg_AlertPrefix)
                     /\ Len(alertMsg') > Len(Msg_AlertPrefix)
                     /\ ~isGeneratingCaptions')
              /\ UNCHANGED <<invoked, uiCaptions, uiSrt>>)]_vars

\* A request made with the flag off has failed: one call of the general
\* backend, an alert, no captions.
C15_Witness ==
    /\ kpc = "idle"
    /\ requests >= 1
    /\ endpoint = Ep_General
    /\ invoked = <<"processAudioWithWhisperSimple">>
    /\ alertMsg = Msg_AlertPrefix \o Msg_NoOutputFile
    /\ uiCaptions = << >>

(***************************************************************************)
(* Claims about the files the backends leave and remove                    *)
(***************************************************************************)
\* The invocation has run to its end.
Ended == bpc \in {"closed", "returned", "done"}

\* The file the invocation reads its result from, or converts its input to.
TemporaryFile ==
    IF variant = "SRTFileCLI" THEN Sibling(audioFilePath, ".srt")
    ELSE IF variant = "SpecializedModel" THEN Sibling(audioFilePath, "_hinglish.json")
    ELSE Sibling(audioFilePath, ".wav")

\* What the invocation yields when every deletion goes well.
OutcomeWhenDeleted ==
    LET fs == IF script.file = << >> THEN NoFiles
              ELSE WriteFile(NoFiles, OutputPath(variant), script.file[1])
    IN  IF variant = "SRTFileCLI"
        THEN processAudioWithWhisperSimple_close(
                 script.code, Whole(script.err), model, fs, AudioPath, FALSE).o
        ELSE IF variant = "SpecializedModel"
        THEN processAudioWithHinglishWhisper_close(
                 script.code, Whole(script.err), fs, AudioPath, FALSE).o
        ELSE IF variant = "InProcess" /\ (EndsWithWav(audioFilePath) \/ script.convert = "ok")
        THEN transcribeWithJS_result(script.result)
        ELSE Rejected(EmptyStr)

\* C22: a deletion of a temporary artifact that fails never turns a
\* successful transcription into a failed one: when the output was read and
\* parsed well and the deletion then fails, the invocation (SRTFileCLI,
\* SpecializedModel, in-process) still returns the transcript.
C22_CleanupFailureNotFatal ==
    (Ended /\ script.rmFails /\ ~script.spawnFails /\ OutcomeWhenDeleted.kind = "resolved")
        => outcome = OutcomeWhenDeleted

\* The variants that read their result from a file the process wrote.
FileVariants == {"SRTFileCLI", "SpecializedModel"}

Succeeded == bpc = "closed" /\ outcome.kind = "resolved"

\* The transcript a variant makes of the content of its output file.
TranscriptIn(content) ==
    IF variant = "SRTFileCLI" THEN JArr(parseSRTContent(content))
    ELSE LET segs == Get(JSONparse(content).v, "segments")
         IN  IF Truthy(segs) THEN segs ELSE JArr(<< >>)

\* The step that removes the output file is the one that delivers the
\* transcript read from it.
RemovedOnlyWhenRead ==
    [][(/\ variant \in FileVariants
        /\ Exists(files, TemporaryFile)
        /\ ~Exists(files', TemporaryFile))
          => (/\ bpc' = "closed"
              /\ outcome'.kind = "resolved"
              /\ outcome'.value = TranscriptIn(files[TemporaryFile]))]_vars

\* C23 as stated: after a successful invocation of SRTFileCLI or
\* SpecializedModel the generated output file (<basename>.srt,
\* <basename>_hinglish.json) no longer exists, and the file is removed only
\* after its content has been read.
C23_OutputFileRemoved ==
    /\ []((variant \in FileVariants /\ Succeeded) => ~Exists(files, TemporaryFile))
    /\ RemovedOnlyWhenRead

\* C23 amended: after a successful invocation of SpecializedModel the
\* output file no longer exists; after a successful invocation of SRTFileCLI
\* it no longer exists unless its deletion failed, in which case it is left
\* where it was; in both the file is removed only in the step that has read it.
C23_OutputFileRemovedUnlessDeletionFails ==
    /\ []((variant \in FileVariants /\ Succeeded) =>
            (Exists(files, TemporaryFile) <=> (variant = "SRTFileCLI" /\ script.rmFails)))
    /\ []((variant = "SRTFileCLI" /\ Succeeded /\ script.rmFails) =>
            files[TemporaryFile] = script.file[1])
    /\ RemovedOnlyWhenRead

\* SRTFileCLI has returned the two segments of the file it read, and the
\* file is gone.
C23_Witness ==
    /\ variant = "SRTFileCLI"
    /\ Succeeded
    /\ written
    /\ ~script.rmFails
    /\ Len(outcome.value.v) = 2
    /\ ~Exists(files, Sibling(audioFilePath, ".srt"))

\* C24: in the in-process variant temporary files are released whatever the
\* outcome: once transcribeWithJS has returned or thrown (success, conversion
\* failure, decode failure, model failure) no temporary WAV made for the call
\* is left on disk, and the caller's input file is still there, also when the
\* input is a .wav file itself.
C24_TemporaryWavReleased ==
    (variant = "InProcess" /\ bpc = "returned") =>
        /\ Exists(files, audioFilePath)
        /\ ~EndsWithWav(audioFilePath) => ~Exists(files, Sibling(audioFilePath, ".wav"))

(***************************************************************************)
(* Claims about the exports of the CLI module                              *)
(***************************************************************************)
\* The function was called as processAudioWithWhisper of the module's exports.
CalledAsExportedWhisper ==
    calledAs.via = "exports" /\ calledAs.name = "processAudioWithWhisper"

\* C28: the exported processAudioWithWhisper is the SRT-file variant: for
\* every model argument (a model left out is 'large') a call of it does, step
\* for step, what processAudioWithWhisperSimple does: it looks for no audio
\* file before it starts the process, gathers no stdout, and settles on
\* 'close' as the handler of processAudioWithWhisperSimple does; and no call
\* through the exports reaches the JSON-stdout function (StructuredCLI).
C28_ExportIsSrtVariant ==
    /\ [](calledAs.via = "exports" => variant /= "StructuredCLI")
    /\ [](CalledAsExportedWhisper =>
            (/\ variant = "SRTFileCLI"
             /\ model = (IF calledAs.model = << >> THEN ModelLarge ELSE calledAs.model[1])
             /\ stdout = EmptyStr))
    /\ [][(bpc = "idle" /\ CalledAsExportedWhisper') =>
             (bpc' = "running" /\ outcome' = Pending)]_vars
    /\ [][(CalledAsExportedWhisper /\ bpc /= "closed" /\ bpc' = "closed") =>
             LET r == processAudioWithWhisperSimple_close(
                          script.code, stderr, model, files, audioFilePath, script.rmFails)
             IN  /\ outcome' = (IF outcome.kind = "pending" THEN r.o ELSE outcome)
                 /\ files' = r.fs]_vars

\* processAudioWithWhisper of the exports, called without a model and with no
\* audio file on disk, has returned the transcript of the .srt file.
C28_Witness ==
    /\ CalledAsExportedWhisper
    /\ calledAs.model = << >>
    /\ model = ModelLarge
    /\ ~Exists(files, audioFilePath)
    /\ Succeeded
    /\ outcome.value.v = Scenario2Captions

(***************************************************************************)
(* Two invocations at the same time.  Each invocation has its own process, *)
(* handlers and promise; the file system is the one thing they share.  The *)
(* external process of an invocation ends well and writes the result of    *)
(* its own audio, so whatever goes wrong comes from the other invocation.  *)
(* A 'close' handler runs without another event between its awaits: one   *)
(* of the schedules the event loop allows.                                 *)
(***************************************************************************)
JobIds == {1, 2}

M4aAudioPath == Path("uploads", "audio", ".m4a")
TalkAudioPath == Path("uploads", "talk", ".mp3")

\* The audio files of the uploads directory.
Uploads == {AudioPath, M4aAudioPath, TalkAudioPath}

Err_NoSuchFile ==
    <<"E", "N", "O", "E", "N", "T", ":", " ", "n", "o", " ", "s", "u", "c", "h", " ", "f", "i",
      "l", "e", " ", "o", "r", " ", "d", "i", "r", "e", "c", "t", "o", "r", "y", ",", " ", "o",
      "p", "e", "n">>

\* The file an invocation reads its result from or converts its input to:
\* <dir>/<basename>.srt, <dir>/<basename>_hinglish.json, <dir>/<basename>.wav
OutputFile(v, audio) ==
    IF v = "SRTFileCLI" THEN Sibling(audio, ".srt")
    ELSE IF v = "SpecializedModel" THEN Sibling(audio, "_hinglish.json")
    ELSE Sibling(audio, ".wav")

\* What the process or the model makes of an audio file: each file has a
\* transcript of its own.
ScriptOf(v, audio) ==
    IF v = "SRTFileCLI"
    THEN Script(FALSE, << >>, << >>, 0,
                <<IF audio = AudioPath THEN Scenario1Text
                  ELSE IF audio = M4aAudioPath THEN Srt_Unordered ELSE Srt_BlankText>>)
    ELSE IF v = "SpecializedModel"
    THEN Script(FALSE, << >>, << >>, 0,
                <<IF audio = AudioPath THEN Json_OneSegment
                  ELSE IF audio = M4aAudioPath THEN Json_TwoSegments ELSE Json_Scenario3>>)
    ELSE Inference(Returned(JObj([chunks |-> JArr(
             IF audio = AudioPath THEN <<Chunk(0, 1200, "text", PaddedHi)>>
             ELSE IF audio = M4aAudioPath THEN <<Chunk(3500, 4000, "text", Namaste)>>
             ELSE <<Chunk(1000, 3500, "text", HelloWorld)>>)])))

NoJob ==
    [variant |-> "none", audio |-> NoPath, script |-> NoScript, wavPath |-> << >>,
     outcome |-> Pending, pc |-> "idle"]

\* The 'close' handler of a CLI variant on the shared file system.
JobHandler(job, fs) ==
    IF job.variant = "SRTFileCLI"
    THEN processAudioWithWhisperSimple_close(
             job.script.code, << >>, ModelLarge, fs, job.audio, FALSE)
    ELSE processAudioWithHinglishWhisper_close(job.script.code, << >>, fs, job.audio, FALSE)

InitJobs ==
    /\ jobs = [j \in JobIds |-> NoJob]
    /\ disk = [p \in Uploads |-> EmptyStr]
    /\ RenderIdle
    /\ CodecIdle
    /\ BackendIdle
    /\ CoordIdle
    /\ UploadIdle

\* A request calls a backend function on its audio file, which no other
\* invocation has been given.
JobInvoke(j, v, a) ==
    /\ jobs[j].pc = "idle"
    /\ \A k \in JobIds : jobs[k].audio /= a
    /\ jobs' = [jobs EXCEPT ![j] =
                   [NoJob EXCEPT !.variant = v, !.audio = a, !.script = ScriptOf(v, a),
                                 !.pc = "running"]]
    /\ UNCHANGED <<disk, renderVars, codecVars, backendVars, coordVars, uploadVars>>

\* The external process of a CLI variant writes its result file.
JobProcessWritesOutput(j) ==
    /\ jobs[j].pc = "running"
    /\ jobs[j].variant \in FileVariants
    /\ disk' = WriteFile(disk, OutputFile(jobs[j].variant, jobs[j].audio),
                         jobs[j].script.file[1])
    /\ jobs' = [jobs EXCEPT ![j].pc = "written"]
    /\ UNCHANGED <<renderVars, codecVars, backendVars, coordVars, uploadVars>>

\* on('close') of a CLI variant, after the process has ended.
JobOnClose(j) ==
    /\ jobs[j].pc = "written"
    /\ LET r == JobHandler(jobs[j], disk)
       IN  /\ jobs' = [jobs EXCEPT ![j].outcome = r.o, ![j].pc = "done"]
           /\ disk' = r.fs
    /\ UNCHANGED <<renderVars, codecVars, backendVars, coordVars, uploadVars>>

\* transcribeWithJS: wavPath = await convertToWav(audioFilePath)
JobConvert(j) ==
    /\ jobs[j].pc = "running"
    /\ jobs[j].variant = "InProcess"
    /\ LET c == convertToWav(disk, jobs[j].audio, "ok")
       IN  /\ jobs' = [jobs EXCEPT ![j].wavPath = c.path, ![j].pc = "converted"]
           /\ disk' = c.fs
    /\ UNCHANGED <<renderVars, codecVars, backendVars, coordVars, uploadVars>>

\* transcribeWithJS: loadWavData(wavPath), which throws when the file is not
\* there, the model call and the mapping; then the finally block.
JobTranscribe(j) ==
    /\ jobs[j].pc = "converted"
    /\ jobs' = [jobs EXCEPT
                   ![j].outcome = IF Exists(disk, jobs[j].wavPath[1])
                                  THEN transcribeWithJS_result(jobs[j].script.result)
                                  ELSE Rejected(Msg_JSFailed \o Err_NoSuchFile),
                   ![j].pc = "done"]
    /\ disk' = transcribeWithJS_finally(disk, jobs[j].wavPath, jobs[j].audio, FALSE)
    /\ UNCHANGED <<renderVars, codecVars, backendVars, coordVars, uploadVars>>

NextJobs ==
    \/ \E j \in JobIds, v \in FileVariants \cup {"InProcess"}, a \in Uploads : JobInvoke(j, v, a)
    \/ \E j \in JobIds : JobProcessWritesOutput(j)
    \/ \E j \in JobIds : JobOnClose(j)
    \/ \E j \in JobIds : JobConvert(j)
    \/ \E j \in JobIds : JobTranscribe(j)

SpecJobs == InitJobs /\ [][NextJobs]_vars

\* The transcript of an invocation's own audio: what it returns when it runs
\* with no other invocation.
OwnTranscript(job) ==
    IF job.variant = "InProcess" THEN transcribeWithJS_result(job.script.result)
    ELSE JobHandler(job, WriteFile(NoFiles, OutputFile(job.variant, job.audio),
                                   job.script.file[1])).o

\* The step is one of invocation j.
StepOf(j) == jobs'[j] /= jobs[j]

\* C21: invocations that run at the same time on distinct audio files are
\* independent: under every interleaving of their steps each returns the
\* transcript of its own audio, and no step of one writes, overwrites or
\* deletes the intermediate file (.srt, _hinglish.json, .wav) of the other.
C21_InvocationsIndependent ==
    /\ [](\A j \in JobIds : jobs[j].pc = "done" => jobs[j].outcome = OwnTranscript(jobs[j]))
    /\ [][\A j, k \in JobIds :
             (j /= k /\ StepOf(j) /\ jobs[k].pc /= "idle") =>
                 LET p == OutputFile(jobs[k].variant, jobs[k].audio)
                 IN  /\ Exists(disk', p) <=> Exists(disk, p)
                     /\ Exists(disk, p) => disk'[p] = disk[p]]_vars

(***************************************************************************)
(* The VideoUploader: file selection and extractAudio around               *)
(* generateCaptions.  extractAudio and the generateCaptions it calls are   *)
(* the functions of the render in which the button was clicked: they see   *)
(* the selectedFile and the useHinglishModel of that render (closure).     *)
(* The progress percentage and the drag-over flag are left out.            *)
(***************************************************************************)
MaxSelections == 2

Type_VideoMp4 == <<"v", "i", "d", "e", "o", "/", "m", "p", "4">>
Type_TextPlain == <<"t", "e", "x", "t", "/", "p", "l", "a", "i", "n">>
Str_VideoSlash == <<"v", "i", "d", "e", "o", "/">>
Msg_SelectValidVideo ==
    <<"P", "l", "e", "a", "s", "e", " ", "s", "e", "l", "e", "c", "t", " ", "a", " ", "v", "a",
      "l", "i", "d", " ", "v", "i", "d", "e", "o", " ", "f", "i", "l", "e">>
Msg_ExtractError ==
    <<"E", "r", "r", "o", "r", " ", "e", "x", "t", "r", "a", "c", "t", "i", "n", "g", " ", "a",
      "u", "d", "i", "o", ".", " ", "P", "l", "e", "a", "s", "e", " ", "t", "r", "y", " ", "a",
      "g", "a", "i", "n", ".">>

File(name, type) == [name |-> name, type |-> type]
VideoA == File("a.mp4", Type_VideoMp4)
VideoB == File("b.mp4", Type_VideoMp4)
Notes == File("notes.txt", Type_TextPlain)

\* The files a user may drop or pick.
UserFiles == {VideoA, VideoB, Notes}

\* file.type.startsWith("video/")
IsVideo(file) == StartsWith(file.type, Str_VideoSlash)

\* The transcript of the audio of a video.
TranscriptOf(file) == IF file = VideoA THEN Scenario2Captions ELSE OneSegmentHi

\* What the backend call for the audio of a video may come to.
BackendResultsFor(fn, file) ==
    {o \in BackendResults(fn) : o.kind = "resolved" => o.value.v = TranscriptOf(file)}

InitUploader ==
    /\ useHinglishModel = TRUE
    /\ isGeneratingCaptions = FALSE
    /\ endpoint = EmptyStr
    /\ invoked = << >>
    /\ response = << >>
    /\ uiCaptions = << >>
    /\ uiSrt = << >>
    /\ alertMsg = EmptyStr
    /\ requests = 0
    /\ kpc = "idle"
    /\ selectedFile = << >>
    /\ extractedAudioUrl = << >>
    /\ isLoading = FALSE
    /\ isFFmpegLoaded = FALSE
    /\ closure = NoClosure
    /\ upc = "idle"
    /\ offered = << >>
    /\ selections = 0
    /\ RenderIdle
    /\ CodecIdle
    /\ BackendIdle
    /\ JobsIdle

\* handleFileSelect that leaves the captions of the file before.
HandleFileSelectKeepsCaptions(file) ==
    /\ selections < MaxSelections
    /\ offered' = <<file>>
    /\ selections' = selections + 1
    /\ IF IsVideo(file)
       THEN /\ selectedFile' = <<file>>
            /\ extractedAudioUrl' = << >>
            /\ UNCHANGED <<uiCaptions, uiSrt, alertMsg>>
       ELSE /\ alertMsg' = Msg_SelectValidVideo
            /\ UNCHANGED <<selectedFile, extractedAudioUrl, uiCaptions, uiSrt>>
    /\ UNCHANGED <<useHinglishModel, isGeneratingCaptions, endpoint, invoked, response,
                   requests, kpc, isLoading, isFFmpegLoaded, closure, upc,
                   renderVars, codecVars, backendVars, jobVars>>

\* handleFileSelect(file), from the drop zone or the file input.
HandleFileSelect(file) ==
    /\ selections < MaxSelections
    /\ offered' = <<file>>
    /\ selections' = selections + 1
    /\ IF IsVideo(file)
       THEN /\ selectedFile' = <<file>>
            /\ extractedAudioUrl' = << >>
            /\ uiCaptions' = << >>
            /\ uiSrt' = << >>
            /\ UNCHANGED alertMsg
       ELSE /\ alertMsg' = Msg_SelectValidVideo
            /\ UNCHANGED <<selectedFile, extractedAudioUrl, uiCaptions, uiSrt>>
    /\ UNCHANGED <<useHinglishModel, isGeneratingCaptions, endpoint, invoked, response,
                   requests, kpc, isLoading, isFFmpegLoaded, closure, upc,
                   renderVars, codecVars, backendVars, jobVars>>

\* A click on the button, which is there when a file is selected and is not
\* disabled: extractAudio up to its first await.
ExtractAudio ==
    /\ selectedFile /= << >>
    /\ ~(isLoading \/ isGeneratingCaptions)
    /\ requests < MaxRequests
    /\ closure' = [file |-> selectedFile[1], flag |-> useHinglishModel]
    /\ isLoading' = TRUE
    /\ upc' = IF isFFmpegLoaded THEN "extracting" ELSE "loading"
    /\ UNCHANGED <<selectedFile, extractedAudioUrl, isFFmpegLoaded, offered, selections,
                   coordVars, renderVars, codecVars, backendVars, jobVars>>

\* await loadFFmpeg(), which stands before the try block: when it throws,
\* extractAudio ends there.
LoadFFmpeg(ok) ==
    /\ upc = "loading"
    /\ IF ok THEN isFFmpegLoaded' = TRUE /\ upc' = "extracting"
       ELSE upc' = "idle" /\ UNCHANGED isFFmpegLoaded
    /\ UNCHANGED <<selectedFile, extractedAudioUrl, isLoading, closure, offered, selections,
                   coordVars, renderVars, codecVars, backendVars, jobVars>>

\* writeFile, exec and readFile of FFmpeg: setExtractedAudioUrl when they went
\* well, otherwise the catch block and the end of extractAudio.
FfmpegExtract(ok) ==
    /\ upc = "extracting"
    /\ IF ok
       THEN /\ extractedAudioUrl' = <<closure.file>>
            /\ upc' = "extracted"
            /\ UNCHANGED <<isLoading, alertMsg>>
       ELSE /\ alertMsg' = Msg_ExtractError
            /\ isLoading' = FALSE
            /\ upc' = "idle"
            /\ UNCHANGED extractedAudioUrl
    /\ UNCHANGED <<selectedFile, isFFmpegLoaded, closure, offered, selections,
                   useHinglishModel, isGeneratingCaptions, endpoint, invoked, response,
                   uiCaptions, uiSrt, requests, kpc,
                   renderVars, codecVars, backendVars, jobVars>>

\* await ffmpeg.deleteFile(...) throws: the catch block and the end.
DeleteFileFails ==
    /\ upc = "extracted"
    /\ alertMsg' = Msg_ExtractError
    /\ isLoading' = FALSE
    /\ upc' = "idle"
    /\ UNCHANGED <<selectedFile, extractedAudioUrl, isFFmpegLoaded, closure, offered,
                   selections, useHinglishModel, isGeneratingCaptions, endpoint, invoked,
                   response, uiCaptions, uiSrt, requests, kpc,
                   renderVars, codecVars, backendVars, jobVars>>

\* await generateCaptions(audioBlob): the call, up to the await of fetch.
CallGenerateCaptions ==
    /\ upc = "extracted"
    /\ GenerateCaptionsWith(closure.flag)
    /\ upc' = "captioning"
    /\ UNCHANGED <<selectedFile, extractedAudioUrl, isLoading, isFFmpegLoaded, closure,
                   offered, selections>>

\* generateCaptions returns, and extractAudio with it: setIsLoading(false).
CaptionsReturn ==
    /\ upc = "captioning"
    /\ ReceiveResponse
    /\ isLoading' = FALSE
    /\ upc' = "idle"
    /\ UNCHANGED <<selectedFile, extractedAudioUrl, isFFmpegLoaded, closure, offered,
                   selections>>

NextUploader ==
    \/ \E file \in UserFiles : HandleFileSelect(file)
    \/ \E b \in BOOLEAN :
          selectedFile /= << >> /\ SetUseHinglishModel(b) /\ UNCHANGED uploadVars
    \/ ExtractAudio
    \/ \E ok \in BOOLEAN : LoadFFmpeg(ok)
    \/ \E ok \in BOOLEAN : FfmpegExtract(ok)
    \/ DeleteFileFails
    \/ CallGenerateCaptions
    \/ FetchFails /\ UNCHANGED uploadVars
    \/ RouteInvokesBackend /\ UNCHANGED uploadVars
    \/ \E o \in BackendResultsFor(RouteBackend(endpoint), closure.file) :
          \E a \in RouteAnswers(o) : RouteAnswersWith(o, a) /\ UNCHANGED uploadVars
    \/ CaptionsReturn

SpecUploader == InitUploader /\ [][NextUploader]_vars

\* C25: whenever captions and srtContent are not null they were made from
\* the file that is selected now: a response that arrives after another file
\* has been selected is not stored against the new file.
C25_CaptionsOfSelectedFile ==
    uiCaptions /= << >> =>
        /\ selectedFile /= << >>
        /\ uiCaptions = <<TranscriptOf(selectedFile[1])>>
        /\ uiSrt = <<encodeSRT(TranscriptOf(selectedFile[1]))>>

\* C26: every run of extractAudio leaves both busy flags false again,
\* whichever step fails (the load of FFmpeg, write, exec, read, delete, the
\* request, a status that is not OK, success = false): when no run is under
\* way isLoading and isGeneratingCaptions are false and the button is enabled.
C26_BusyFlagsReset ==
    upc = "idle" => (~isLoading /\ ~isGeneratingCaptions)

\* C27: a caption generation that fails (no answer, a status that is not OK,
\* success = false) leaves captions and srtContent as they were and one that
\* succeeds sets both, to the transcription and the srt of the answer; a
\* video handed to handleFileSelect becomes the selected file and
\* extractedAudioUrl, captions and srtContent become null, any other file
\* changes none of selectedFile, extractedAudioUrl, captions and srtContent.
C27_FrameEffects ==
    /\ [][(kpc = "answered" /\ kpc' = "idle") =>
             IF ThrownOn(response[1]) /= << >>
             THEN UNCHANGED <<uiCaptions, uiSrt>>
             ELSE /\ uiCaptions' = <<response[1].transcription>>
                  /\ uiSrt' = <<response[1].srt>>]_vars
    /\ [][selections' = selections + 1 =>
             IF IsVideo(offered'[1])
             THEN /\ selectedFile' = offered'
                  /\ extractedAudioUrl' = << >>
                  /\ uiCaptions' = << >>
                  /\ uiSrt' = << >>
             ELSE UNCHANGED <<selectedFile, extractedAudioUrl, uiCaptions, uiSrt>>]_vars

\* The captions of a.mp4 are shown; then notes.txt was dropped and a second
\* generation failed: the file, the audio, the captions and the SRT text are
\* still those of a.mp4.
C27_Witness ==
    /\ requests = 2
    /\ upc = "idle"
    /\ selectedFile = <<VideoA>>
    /\ offered = <<Notes>>
    /\ extractedAudioUrl = <<VideoA>>
    /\ uiCaptions = <<Scenario2Captions>>
    /\ uiSrt = <<encodeSRT(Scenario2Captions)>>
    /\ StartsWith(alertMsg, Msg_AlertPrefix)

====
